---- MODULE Spec2Model ----
(***************************************************************************)
(* Model of the insider-detection core of polymarket-bot:                  *)
(*   backend/detectors.py   InsiderDetector (signal scoring, wallet        *)
(*                          clusters, information cascade)                 *)
(*   backend/backtester.py  Backtester (replay and known-case validation)  *)
(*                                                                         *)
(* Numbers.  Python floats are modelled by exact integers:                 *)
(*   - a price is stored in hundredths of a cent (PriceDen per cent), so   *)
(*     that both the venue's 0..1 scale (0.07) and the cents scale (7.0)   *)
(*     are integers: 0.07 is 7, 7.0 cents is 700;                          *)
(*   - a notional is stored as shares * price, i.e. in units of            *)
(*     1 / (PriceDen * CentsPerDollar) dollar;                             *)
(*   - a win rate is stored in percent;                                    *)
(*   - a z-score is kept as the pair (zNum, zDenSq), z = zNum/sqrt(zDenSq);*)
(*   - timestamps of batch trades are whole minutes.                       *)
(* Optional values use the sentinel None.                                  *)
(***************************************************************************)
EXTENDS Integers, Sequences, FiniteSets, TLC

VARIABLES
    volume_history,   \* InsiderDetector.volume_history: market id -> list of samples
    arrivals,         \* history variable: every sample ever offered per market
    trade_data,       \* the caller's raw trade dict
    wallet_profile,   \* the caller's raw wallet-profile dict
    market_data,      \* the caller's raw market dict
    last,             \* what the most recent analyze_trade_detailed call returned
    calls_left,       \* remaining analyze calls per market (model bound)
    spikes_left,      \* remaining non-baseline volume samples (model bound)
    clock,            \* whole days gone by since the start (datetime.utcnow())
    cl_trades,        \* detect_wallet_clusters: the batch of raw trade dicts
    cl_window,        \* detect_wallet_clusters: time_window_minutes
    cl_result,        \* what detect_wallet_clusters returned
    cl_pc,            \* "ready" before the call, "done" after it
    ca_trades,        \* detect_information_cascade: the market's raw trade dicts
    ca_result,        \* what detect_information_cascade returned
    ca_pc,            \* "ready" before the call, "done" after it
    bt_trades,        \* what client.get_market_trades returns for the case's market
    bt_profiles,      \* what client.get_wallet_profile returns, per wallet
    bt_fault,         \* which of the venue's fetches fails during the run
    bt_result,        \* the BacktestResult run_known_case returned
    bt_pc,            \* "ready" before the call, "done" after it
    task_pc,          \* per task: "await" between calls, "in_call" inside analyze
    task_read,        \* per task: the volume history its call in progress read
    task_left,        \* per task: analyze calls still to make (model bound)
    alerts_store,     \* main.alerts_store: the alerts, newest first
    seen_trade_keys,  \* main.seen_trade_keys
    scan_pc,          \* per scan: "loop", or "notify" while awaiting the notifier
    scan_left,        \* trades the scans still process (model bound)
    alerted           \* history variable: keys alerted ever, and more than once

detector_vars == <<volume_history, arrivals, trade_data, wallet_profile,
                   market_data, last, calls_left, spikes_left, clock>>

cluster_vars == <<cl_trades, cl_window, cl_result, cl_pc>>

cascade_vars == <<ca_trades, ca_result, ca_pc>>

backtest_vars == <<bt_trades, bt_profiles, bt_fault, bt_result, bt_pc>>

task_vars == <<task_pc, task_read, task_left>>

scan_vars == <<alerts_store, seen_trade_keys, scan_pc, scan_left, alerted>>

vars == <<detector_vars, cluster_vars, cascade_vars, backtest_vars, task_vars,
          scan_vars>>

None == -1

----------------------------------------------------------------------------
(* Settings: backend/config.py *)

min_notional_alert == 1000
max_unique_markets_suspicious == 10
\* volume_spike_zscore = 2.5, kept as the fraction zscore_num / zscore_den
zscore_num == 5
zscore_den == 2
whale_threshold_usd == 5000
fresh_wallet_max_trades == 5
\* win_rate_suspicious_threshold = 0.85, in percent
win_rate_suspicious_threshold == 85

PriceDen == 100
CentsPerDollar == 100
\* one dollar of notional in model units
Dollar == PriceDen * CentsPerDollar

----------------------------------------------------------------------------
(* Helpers over sequences of integers *)

RECURSIVE SumSeq(_)
SumSeq(s) == IF s = <<>> THEN 0 ELSE Head(s) + SumSeq(Tail(s))

RECURSIVE SumSq(_)
SumSq(s) == IF s = <<>> THEN 0 ELSE Head(s) * Head(s) + SumSq(Tail(s))

Min(a, b) == IF a <= b THEN a ELSE b
Max(a, b) == IF a >= b THEN a ELSE b

----------------------------------------------------------------------------
(* Model builders: InsiderDetector._build_wallet_profile, _build_trade *)

\* WalletProfile(...): missing counters default to 0; the three flags start
\* false.  first_seen is kept as the account age in whole days at the time
\* of the call, (now - first_seen).days, or None.
_build_wallet_profile(data) ==
    [ total_trades         |-> data.total_trades,
      unique_markets       |-> data.unique_markets,
      total_volume_usd     |-> data.total_volume_usd,
      win_rate             |-> data.win_rate,
      first_seen           |-> data.first_seen,
      is_fresh_wallet      |-> FALSE,
      is_whale             |-> FALSE,
      has_unusual_win_rate |-> FALSE ]

\* The raw timestamp is one of: "aware" (an ISO string with Z or an offset),
\* "naive" (an ISO string without offset), "bad" (a string that is no ISO
\* date) or "absent".  fromisoformat raises on "bad"; an absent timestamp
\* becomes datetime.utcnow(), which is naive.
_build_trade_raises(data) == data.timestamp = "bad"

_build_trade(data, market) ==
    [ market_id    |-> data.market,
      trader_address |-> data.maker,
      side         |-> data.side,
      shares       |-> data.size,
      price        |-> data.price,
      notional_usd |-> data.size * data.price,
      tz           |-> IF data.timestamp = "aware" THEN "aware" ELSE "naive",
      market_volume_24h |-> market.volume24hr ]

----------------------------------------------------------------------------
(* Individual detectors *)

\* variant: both trade-count tiers add up
fresh_trades_score_both(wallet) ==
    (IF wallet.total_trades <= fresh_wallet_max_trades THEN 35 ELSE 0)
    + (IF wallet.total_trades <= 20 THEN 15 ELSE 0)

\* trade-count tier of _check_fresh_wallet
fresh_trades_score(wallet) ==
    IF wallet.total_trades <= fresh_wallet_max_trades THEN 35
    ELSE IF wallet.total_trades <= 20 THEN 15
    ELSE 0

\* variant: the account age scored in finer steps
fresh_age_score_finer(wallet) ==
    IF wallet.first_seen = None THEN 0
    ELSE IF wallet.first_seen < 7 THEN 20
    ELSE IF wallet.first_seen < 8 THEN 15
    ELSE IF wallet.first_seen < 30 THEN 10
    ELSE 0

\* account-age tier of _check_fresh_wallet
fresh_age_score(wallet) ==
    IF wallet.first_seen = None THEN 0
    ELSE IF wallet.first_seen < 7 THEN 20
    ELSE IF wallet.first_seen < 30 THEN 10
    ELSE 0

_check_fresh_wallet(wallet) ==
    [ score  |-> fresh_trades_score(wallet) + fresh_age_score(wallet),
      wallet |-> [wallet EXCEPT !.is_fresh_wallet =
                     @ \/ wallet.total_trades <= fresh_wallet_max_trades] ]

\* notional > avg_trade * k, with avg_trade = total_volume_usd / total_trades
ExceedsAverage(trade, wallet, k) ==
    trade.notional_usd > (k * wallet.total_volume_usd * Dollar) \div wallet.total_trades

_check_unusual_size(trade, wallet) ==
    LET whale == trade.notional_usd >= whale_threshold_usd * Dollar
        rel   == IF wallet.total_volume_usd > 0 /\ wallet.total_trades > 0
                 THEN IF ExceedsAverage(trade, wallet, 5) THEN 20
                      ELSE IF ExceedsAverage(trade, wallet, 3) THEN 10
                      ELSE 0
                 ELSE 0
    IN  [ score  |-> (IF whale THEN 25 ELSE 0) + rel,
          wallet |-> [wallet EXCEPT !.is_whale = @ \/ whale] ]

_check_low_diversity(wallet) ==
    IF wallet.unique_markets <= 3 THEN 30
    ELSE IF wallet.unique_markets <= max_unique_markets_suspicious THEN 15
    ELSE 0

\* z >= k * volume_spike_zscore, for z = zNum / sqrt(zDenSq)
ZAtLeast(zNum, zDenSq, k) ==
    /\ zNum >= 0
    /\ zscore_den * zscore_den * zNum * zNum >= k * k * zscore_num * zscore_num * zDenSq

warmup_samples_two == 3 - 1

\* len(history) < warmup_samples: not enough history
warmup_samples == 3
\* len(history) > volume_history_cap: evict
volume_history_cap == 30

evict_newest(history) == SubSeq(history, 1, Len(history) - 1)

\* variant: two samples are dropped
evict_two(history) == Tail(Tail(history))

\* self.volume_history[market_id].pop(0)
evict(history) == Tail(history)

_check_volume_anomaly(history, market) ==
    LET current_volume == IF market.volume24hr = None THEN 0 ELSE market.volume24hr
        n        == Len(history)
        S        == SumSeq(history)
        D        == n * SumSq(history) - S * S      \* n^2 * variance
        zNum     == n * current_volume - S
        zDenSq   == IF D > 0 THEN D ELSE n * n      \* std floored at 1
        appended == Append(history, current_volume)
    IN  IF n < warmup_samples
        THEN [ score |-> 0, zNum |-> 0, zDenSq |-> 1, history |-> appended ]
        ELSE [ score   |-> IF ZAtLeast(zNum, zDenSq, 2) THEN 30
                           ELSE IF ZAtLeast(zNum, zDenSq, 1) THEN 15
                           ELSE 0,
               zNum    |-> zNum,
               zDenSq  |-> zDenSq,
               history |-> IF Len(appended) > volume_history_cap
                           THEN evict(appended) ELSE appended ]

_check_win_rate_anomaly(wallet) ==
    LET unusual == /\ wallet.win_rate # None
                   /\ wallet.total_trades >= 10
                   /\ wallet.win_rate >= win_rate_suspicious_threshold
    IN  [ score  |-> IF wallet.win_rate = None THEN 0
                     ELSE IF wallet.total_trades < 10 THEN 0
                     ELSE IF unusual THEN 25
                     ELSE IF wallet.win_rate >= 75 THEN 10
                     ELSE 0,
          wallet |-> [wallet EXCEPT !.has_unusual_win_rate = @ \/ unusual] ]

\* endDate is absent, or a string of kind "aware" / "naive" / "bad" with
\* the whole hours from the trade's timestamp to it.  Subtracting an aware
\* and a naive datetime raises TypeError; fromisoformat raises on "bad".
_check_timing_raises(trade, market) ==
    /\ market.endDate.kind # "absent"
    /\ market.endDate.kind # trade.tz

_check_timing(trade, market) ==
    IF market.endDate.kind = "absent" THEN 0
    ELSE IF market.endDate.hours < 24 /\ trade.price < 20 * PriceDen THEN 25
    ELSE IF market.endDate.hours < 48 THEN 10
    ELSE 0

\* variant: every tier the price is under adds up
_check_extreme_odds_cumulative(trade) ==
    (IF trade.price <= 10 * PriceDen THEN 30 ELSE 0)
    + (IF trade.price <= 20 * PriceDen THEN 20 ELSE 0)
    + (IF trade.price <= 30 * PriceDen THEN 10 ELSE 0)

_check_extreme_odds(trade) ==
    IF trade.price <= 10 * PriceDen THEN 30
    ELSE IF trade.price <= 20 * PriceDen THEN 20
    ELSE IF trade.price <= 30 * PriceDen THEN 10
    ELSE 0

----------------------------------------------------------------------------
(* Detection orchestrator: InsiderDetector.analyze_trade_detailed *)

SignalNames == << "Fresh Wallet", "Position Size", "Market Diversity",
                  "Volume Spike", "Win Rate", "Timing", "Extreme Odds" >>

\* if score > 0: severity_score += score
AddScore(severity_score, score) ==
    IF score > 0 THEN severity_score + score ELSE severity_score

severity_of(severity_score) ==
    IF severity_score >= 80 THEN "critical"
    ELSE IF severity_score >= 60 THEN "high"
    ELSE IF severity_score >= 40 THEN "medium"
    ELSE "low"

clamp_score_unclamped(severity_score) == severity_score

\* suspicion_score=min(severity_score, 100)
clamp_score(severity_score) == Min(severity_score, 100)

suspicion_floor_high == 20 + 20

\* if severity_score < suspicion_floor: return None, signals
suspicion_floor == 20

NoSignals == << >>

\* The result of one call.  ret is "None" or "SuspiciousTrade" (the first
\* element of the returned pair) or "raised" (an exception escaped); signals
\* is the second element.  history is the market's volume history after the
\* call and sampled tells whether the call offered a sample to it.
analyze_trade_detailed(history, td, wp, md) ==
    IF _build_trade_raises(td)
    THEN [ ret |-> "raised", signals |-> NoSignals, flags |-> << >>,
           severity_score |-> 0, suspicion_score |-> None, severity |-> "none",
           zNum |-> 0, zDenSq |-> 1, volume_zscore |-> FALSE,
           wallet |-> _build_wallet_profile(wp),
           history |-> history, sampled |-> FALSE ]
    ELSE
    LET wallet0 == _build_wallet_profile(wp)
        trade   == _build_trade(td, md)
        fresh   == _check_fresh_wallet(wallet0)
        size    == _check_unusual_size(trade, fresh.wallet)
        divers  == _check_low_diversity(size.wallet)
        volume  == _check_volume_anomaly(history, md)
        winrate == _check_win_rate_anomaly(size.wallet)
        timing  == _check_timing(trade, md)
        odds    == _check_extreme_odds(trade)
        scores  == << fresh.score, size.score, divers, volume.score,
                      winrate.score, timing, odds >>
        signals == [ i \in 1..7 |->
                       [ signal |-> SignalNames[i], score |-> scores[i] ] ]
        flags   == SelectSeq(signals, LAMBDA e : e.score > 0)
        severity_score ==
            AddScore(AddScore(AddScore(AddScore(AddScore(AddScore(AddScore(0,
                fresh.score), size.score), divers), volume.score),
                winrate.score), timing), odds)
    IN  IF _check_timing_raises(trade, md)
        THEN [ ret |-> "raised", signals |-> NoSignals, flags |-> << >>,
               severity_score |-> 0, suspicion_score |-> None,
               severity |-> "none",
               zNum |-> 0, zDenSq |-> 1, volume_zscore |-> FALSE,
               wallet |-> winrate.wallet,
               history |-> volume.history, sampled |-> TRUE ]
        ELSE IF severity_score < suspicion_floor
        THEN [ ret |-> "None", signals |-> signals,
               flags |-> [ i \in 1..Len(flags) |-> flags[i].signal ],
               severity_score |-> severity_score, suspicion_score |-> None,
               severity |-> "none",
               zNum |-> volume.zNum, zDenSq |-> volume.zDenSq,
               volume_zscore |-> FALSE,
               wallet |-> winrate.wallet,
               history |-> volume.history, sampled |-> TRUE ]
        ELSE [ ret |-> "SuspiciousTrade", signals |-> signals,
               flags |-> [ i \in 1..Len(flags) |-> flags[i].signal ],
               severity_score |-> severity_score,
               suspicion_score |-> clamp_score(severity_score),
               severity |-> severity_of(severity_score),
               zNum |-> volume.zNum, zDenSq |-> volume.zDenSq,
               volume_zscore |-> volume.score > 0,
               wallet |-> winrate.wallet,
               history |-> volume.history, sampled |-> TRUE ]

----------------------------------------------------------------------------
(* Wallet clusters: InsiderDetector.detect_wallet_clusters *)

(* A raw batch trade is a record
     [ id, market, maker, side, timestamp, size, price ]
   where id names the trade within its batch and timestamp is the whole
   minute of an ISO-8601 string (all strings of a batch in the same format,
   so that their string order is their time order).                        *)

\* sorted(..., key=timestamp): stable, ascending
RECURSIVE InsertByTimestamp(_, _)
InsertByTimestamp(sorted, t) ==
    IF sorted = << >> THEN << t >>
    ELSE IF sorted[Len(sorted)].timestamp <= t.timestamp THEN Append(sorted, t)
    ELSE Append(InsertByTimestamp(SubSeq(sorted, 1, Len(sorted) - 1), t),
                sorted[Len(sorted)])

RECURSIVE SortByTimestamp(_)
SortByTimestamp(trades) ==
    IF trades = << >> THEN << >>
    ELSE InsertByTimestamp(SortByTimestamp(SubSeq(trades, 1, Len(trades) - 1)),
                           trades[Len(trades)])

\* market ids in the order in which the batch first mentions them
RECURSIVE MarketOrder(_)
MarketOrder(trades) ==
    IF trades = << >> THEN << >>
    ELSE LET before == MarketOrder(SubSeq(trades, 1, Len(trades) - 1))
             m      == trades[Len(trades)].market
         IN  IF m = "" \/ \E i \in 1..Len(before) : before[i] = m
             THEN before ELSE Append(before, m)

CountSide(trades, side) ==
    Cardinality({ i \in 1..Len(trades) : trades[i].side = side })

\* variant: the BUY share instead of the majority share
_calculate_correlation_buys(trades) ==
    IF Len(trades) < 2 THEN [ num |-> 0, den |-> 1 ]
    ELSE
    LET n         == Len(trades)
        same_side == CountSide(trades, "BUY")
        times     == { trades[i].timestamp : i \in 1..n }
        latest    == CHOOSE t \in times : \A u \in times : u <= t
        earliest  == CHOOSE t \in times : \A u \in times : t <= u
        time_spread == latest - earliest
    IN  [ num |-> 60 * same_side + n * (60 - Min(time_spread, 60)),
          den |-> 120 * n ]

\* the correlation score as the fraction num / den
_calculate_correlation(trades) ==
    IF Len(trades) < 2 THEN [ num |-> 0, den |-> 1 ]
    ELSE
    LET n         == Len(trades)
        same_side == Max(CountSide(trades, "BUY"), CountSide(trades, "SELL"))
        times     == { trades[i].timestamp : i \in 1..n }
        latest    == CHOOSE t \in times : \A u \in times : u <= t
        earliest  == CHOOSE t \in times : \A u \in times : t <= u
        time_spread == latest - earliest               \* minutes
    IN  \* (same_side / n + (1 - min(time_spread / 60, 1))) / 2
        [ num |-> 60 * same_side + n * (60 - Min(time_spread, 60)),
          den |-> 120 * n ]

\* variant: a threshold of 0.75
is_suspicious_lenient(c) ==
    /\ 4 * c.correlation_score.num > 3 * c.correlation_score.den
    /\ Cardinality(c.wallets) > 2

is_suspicious_inclusive(c) ==
    /\ 5 * c.correlation_score.num >= 4 * c.correlation_score.den
    /\ Cardinality(c.wallets) > 2

\* WalletCluster.is_suspicious: correlation_score > 0.8 and len(wallets) > 2
is_suspicious(c) ==
    /\ 5 * c.correlation_score.num > 4 * c.correlation_score.den
    /\ Cardinality(c.wallets) > 2

Ids(trades) == { trades[i].id : i \in 1..Len(trades) }

\* the closing of current_cluster when a trade outside its window arrives
close_cluster(market_id, current_cluster, cluster_start, clusters) ==
    LET wallets == { current_cluster[i].maker : i \in 1..Len(current_cluster) }
                      \ { "" }
    IN  IF Len(current_cluster) >= 3 /\ Cardinality(wallets) >= 3
        THEN Append(clusters,
               [ cluster_id        |-> << market_id, cluster_start >>,
                 wallets           |-> wallets,
                 correlation_score |-> _calculate_correlation(current_cluster),
                 shared_markets    |-> << market_id >>,
                 total_volume      |-> SumSeq([ i \in 1..Len(current_cluster) |->
                                          current_cluster[i].size
                                            * current_cluster[i].price ]),
                 first_coordinated_trade |-> cluster_start,
                 members           |-> Ids(current_cluster) ])
        ELSE clusters

end_of_sweep_flush(market_id, current_cluster, cluster_start, clusters) ==
    close_cluster(market_id, current_cluster, cluster_start, clusters)

\* what follows the last trade of a market's sorted list: nothing, the
\* cluster in progress is dropped
end_of_sweep(market_id, current_cluster, cluster_start, clusters) == clusters

\* variant: the closed cluster's trades stay in the new one
start_new_cluster_keeping(current_cluster, trade) == Append(current_cluster, trade)

\* current_cluster = [trade]
start_new_cluster(current_cluster, trade) == << trade >>

\* variant: the window is measured from the trade before
within_window_of_previous(trade, current_cluster, cluster_start, window) ==
    trade.timestamp - current_cluster[Len(current_cluster)].timestamp <= window

\* (trade_time - cluster_start).total_seconds() / 60 <= time_window_minutes
within_window(trade, current_cluster, cluster_start, window) ==
    trade.timestamp - cluster_start <= window

\* the loop over one market's sorted trades; yields the clusters built and
\* the cluster still in progress when the list ends
RECURSIVE sweep(_, _, _, _, _, _)
sweep(market_id, rest, window, current_cluster, cluster_start, clusters) ==
    IF rest = << >>
    THEN [ clusters |-> end_of_sweep(market_id, current_cluster,
                                     cluster_start, clusters),
           open     |-> Ids(current_cluster) ]
    ELSE LET trade == Head(rest)
         IN  IF cluster_start = None
             THEN sweep(market_id, Tail(rest), window,
                        << trade >>, trade.timestamp, clusters)
             ELSE IF within_window(trade, current_cluster, cluster_start, window)
             THEN sweep(market_id, Tail(rest), window,
                        Append(current_cluster, trade), cluster_start, clusters)
             ELSE sweep(market_id, Tail(rest), window,
                        start_new_cluster(current_cluster, trade),
                        trade.timestamp,
                        close_cluster(market_id, current_cluster,
                                      cluster_start, clusters))

market_trade_list(trades, market_id) ==
    SelectSeq(trades, LAMBDA t : t.market = market_id)

RECURSIVE sweep_markets(_, _, _, _)
sweep_markets(trades, window, markets, acc) ==
    IF markets = << >> THEN acc
    ELSE LET market_id == Head(markets)
             r == sweep(market_id,
                        SortByTimestamp(market_trade_list(trades, market_id)),
                        window, << >>, None, acc.clusters)
         IN  sweep_markets(trades, window, Tail(markets),
                           [ clusters |-> r.clusters,
                             open     |-> acc.open \cup r.open ])

\* returned: the suspicious clusters; open: the ids of the trades that were
\* in a cluster still in progress when their market's list ended
detect_wallet_clusters(trades, time_window_minutes) ==
    LET r == sweep_markets(trades, time_window_minutes, MarketOrder(trades),
                           [ clusters |-> << >>, open |-> { } ])
    IN  [ returned |-> SelectSeq(r.clusters, is_suspicious),
          built    |-> r.clusters,
          open     |-> r.open ]

----------------------------------------------------------------------------
(* Information cascade: InsiderDetector.detect_information_cascade *)

(* A raw cascade trade is a record [ maker, side, timestamp, size, price ];
   two trades are the same dict exactly when all their fields agree. *)

\* float(size) * float(price) / 100, in units of 1 / Dollar
notional(trade) == trade.size * trade.price

\* the first of the given trades whose notional reaches the alert floor, as
\* a one-element sequence, or the empty sequence
RECURSIVE find_spark(_)
find_spark(trades) ==
    IF trades = << >> THEN << >>
    ELSE IF notional(Head(trades)) >= min_notional_alert * Dollar
    THEN << Head(trades) >>
    ELSE find_spark(Tail(trades))

\* the trades counted as followers: every trade of the sorted list that is
\* not the spark dict and has the spark's side
follower_trades(sorted_trades, spark_trade) ==
    SelectSeq(sorted_trades,
              LAMBDA t : t # spark_trade /\ t.side = spark_trade.side)

cascade_threshold_lax(followers, total) ==
    10 * followers >= 7 * total /\ followers >= 4

\* follow_ratio >= 0.7 and followers >= 5
cascade_threshold(followers, total) ==
    10 * followers >= 7 * total /\ followers >= 5

NoCascade ==
    [ ret |-> "None", spark_trade |-> << >>, spark_wallet |-> "",
      followers |-> 0, follow_ratio |-> [ num |-> 0, den |-> 1 ],
      follower_volume |-> 0, direction |-> "" ]

\* variant: every trade may be the spark
earliest_five_all(sorted_trades) == sorted_trades

\* sorted_trades[:5]
earliest_five(sorted_trades) == SubSeq(sorted_trades, 1, Min(5, Len(sorted_trades)))

detect_information_cascade(market_id, trades) ==
    IF Len(trades) < 5 THEN NoCascade
    ELSE
    LET sorted_trades == SortByTimestamp(trades)
        spark == find_spark(earliest_five(sorted_trades))
    IN  IF spark = << >> THEN NoCascade
        ELSE
        LET spark_trade == spark[1]
            counted     == follower_trades(sorted_trades, spark_trade)
            followers   == Len(counted)
        IN  IF cascade_threshold(followers, Len(sorted_trades))
            THEN [ ret |-> "cascade",
                   spark_trade  |-> spark,
                   spark_wallet |-> spark_trade.maker,
                   followers    |-> followers,
                   follow_ratio |-> [ num |-> followers,
                                      den |-> Len(sorted_trades) ],
                   follower_volume |->
                       SumSeq([ i \in 1..Len(counted) |-> notional(counted[i]) ]),
                   direction    |-> spark_trade.side ]
            ELSE NoCascade

----------------------------------------------------------------------------
(* Backtester: Backtester.backtest_market, Backtester.run_known_case *)

(* A fetched trade is a record [ user, side, size, price, timestamp ]; the
   wallet address is a string whose length and lower-case form are looked up
   in AddressBook. *)

InsiderMixed == "0x31a56e9E690c621eD21De08Cb559e9524Cdb8eD9"
InsiderLower == "0x31a56e9e690c621ed21de08cb559e9524cdb8ed9"
OtherWallet  == "0x234cc49e43dff8b3207bbd3a8a2579f339cb9867"
ShortWallet  == "0x234cc"

AddressBook ==
    [ a \in { InsiderMixed, InsiderLower, OtherWallet, ShortWallet, "" } |->
        [ len   |-> IF a = "" THEN 0 ELSE IF a = ShortWallet THEN 7 ELSE 42,
          lower |-> IF a = InsiderMixed THEN InsiderLower ELSE a ] ]

lower(a) == AddressBook[a].lower

\* KNOWN_CASES, with the condition ids renamed to the model's market ids
KNOWN_CASES ==
    [ c \in { "maduro_capture", "nobel_peace_prize" } |->
        IF c = "maduro_capture"
        THEN [ id |-> c, condition_id |-> "m1",
               insider_wallet |-> InsiderMixed, expected_min_score |-> 60 ]
        ELSE [ id |-> c, condition_id |-> "m2",
               insider_wallet |-> OtherWallet, expected_min_score |-> 60 ] ]

\* result.suspicious_trades[:max_suspicious_trades]
max_suspicious_trades == 50

\* variant: the market context carries an endDate 12 hours away
backtest_market_data_dated ==
    [ volume24hr |-> None, endDate |-> [ kind |-> "aware", hours |-> 12 ] ]

\* the market_data backtest_market builds: no volume24hr key, no endDate key
backtest_market_data == [ volume24hr |-> None, endDate |-> [ kind |-> "absent", hours |-> 0 ] ]

\* list.sort(key=score, reverse=True): stable, highest score first
RECURSIVE InsertByScore(_, _)
InsertByScore(sorted, e) ==
    IF sorted = << >> THEN << e >>
    ELSE IF Head(sorted).score >= e.score
    THEN << Head(sorted) >> \o InsertByScore(Tail(sorted), e)
    ELSE << e >> \o sorted

RECURSIVE SortByScore(_)
SortByScore(entries) ==
    IF entries = << >> THEN << >>
    ELSE InsertByScore(SortByScore(SubSeq(entries, 1, Len(entries) - 1)),
                       entries[Len(entries)])

\* wallet_cache (address -> profile dict) and lookups (the addresses handed
\* to client.get_wallet_profile, in order) are locals of backtest_market,
\* kept with the result
NoBacktest ==
    [ case_id |-> "", total_trades |-> 0, trades_analyzed |-> 0,
      suspicious_trades |-> << >>, top_score |-> 0, expected_min_score |-> 0,
      passed |-> "None", error |-> "", insider_wallet |-> "",
      insider_found |-> FALSE, insider_score |-> None, insider_rank |-> None,
      wallet_cache |-> << >>, lookups |-> << >> ]

\* the normalised trade dict handed to the detector: the caller's fields
\* plus maker, market and side; the price stays as fetched
normalise(condition_id, trade) ==
    [ market |-> condition_id, maker |-> trade.user,
      side |-> IF trade.side = "" THEN "BUY" ELSE trade.side,
      size |-> trade.size, price |-> trade.price,
      timestamp |-> trade.timestamp ]

\* price = float(trade.get("price", 50) or 50); if price <= 1: price * 100
entry_price(trade) ==
    IF trade.price = 0 THEN 50 * PriceDen
    ELSE IF trade.price <= PriceDen THEN trade.price * 100
    ELSE trade.price

(* The venue.  fault names the one fetch that fails during a run: "trades"
   (get_market_trades raises), "market" (get_market raises), "wallet"
   (get_wallet_profile raises for OtherWallet) or "none".  A wallet's profile
   is profiles[lower(address)] when the address is looked up for the first
   time; by a later lookup the wallet has made one more trade. *)
get_wallet_profile_raises(address, fault) ==
    fault = "wallet" /\ address = OtherWallet

get_wallet_profile(profiles, address, lookups) ==
    IF \E i \in 1..Len(lookups) : lookups[i] = address
    THEN [ profiles[lower(address)] EXCEPT !.total_trades = @ + 1 ]
    ELSE profiles[lower(address)]

lookup_always(wallet_cache, wallet_addr) == TRUE

\* if wallet_addr not in wallet_cache
lookup_needed(wallet_cache, wallet_addr) ==
    wallet_addr \notin DOMAIN wallet_cache

\* wallet_cache[wallet_addr] = await client.get_wallet_profile(wallet_addr)
fetch_profile(acc, wallet_addr, profiles, fault) ==
    IF ~lookup_needed(acc.result.wallet_cache, wallet_addr) THEN acc
    ELSE IF get_wallet_profile_raises(wallet_addr, fault)
    THEN [ acc EXCEPT !.raised = TRUE,
                      !.result.lookups = Append(@, wallet_addr) ]
    ELSE [ acc EXCEPT
             !.result.lookups = Append(@, wallet_addr),
             !.result.wallet_cache =
                 [ a \in (DOMAIN @) \cup { wallet_addr } |->
                     IF a = wallet_addr
                     THEN get_wallet_profile(profiles, wallet_addr,
                                             acc.result.lookups)
                     ELSE @[a] ] ]

\* variant: the score of the latest entry
update_top_score_latest(top_score, total_score) == total_score

\* if total_score > result.top_score: result.top_score = total_score
update_top_score(top_score, total_score) ==
    IF total_score > top_score THEN total_score ELSE top_score

\* what the rest of the loop body does to the accumulated state, given the
\* detector's answer r for the trade
record(acc, trade, r) ==
    LET total_score == SumSeq([ i \in 1..Len(r.signals) |-> r.signals[i].score ])
        entry == [ trader |-> trade.user,
                   side |-> IF trade.side = "" THEN "BUY" ELSE trade.side,
                   notional_usd |-> trade.size * entry_price(trade),
                   price |-> entry_price(trade), shares |-> trade.size,
                   score |-> total_score,
                   signals |-> r.signals,
                   is_alert |-> r.ret = "SuspiciousTrade",
                   severity |-> r.severity,
                   wallet_trades |->
                       acc.result.wallet_cache[trade.user].total_trades,
                   wallet_markets |->
                       acc.result.wallet_cache[trade.user].unique_markets ]
    IN  IF r.ret = "raised"
        THEN [ acc EXCEPT !.raised = TRUE,
                          !.history = r.history,
                          !.samples = @ + (IF r.sampled THEN 1 ELSE 0) ]
        ELSE [ acc EXCEPT
                 !.result.trades_analyzed = @ + 1,
                 !.result.suspicious_trades =
                     IF total_score > 0 THEN Append(@, entry) ELSE @,
                 !.result.top_score =
                     IF total_score > 0 THEN update_top_score(@, total_score)
                     ELSE @,
                 !.history = r.history,
                 !.samples = @ + 1 ]

\* the loop body from the detector call on, for a trade whose profile
\* fetch_profile has put into the cache (or has failed to fetch)
analyse_fetched(condition_id, trade, acc) ==
    IF acc.raised THEN acc
    ELSE record(acc, trade,
                analyze_trade_detailed(acc.history,
                                       normalise(condition_id, trade),
                                       acc.result.wallet_cache[trade.user],
                                       backtest_market_data))

\* the loop of backtest_market over the fetched trades; acc carries the
\* result so far, the market's volume history, the number of samples the
\* detector was offered and whether an exception ended the loop
RECURSIVE replay(_, _, _, _, _)
replay(condition_id, rest, profiles, fault, acc) ==
    IF rest = << >> \/ acc.raised THEN acc
    ELSE IF Head(rest).user = "" \/ AddressBook[Head(rest).user].len < 10
    THEN replay(condition_id, Tail(rest), profiles, fault, acc)
    ELSE replay(condition_id, Tail(rest), profiles, fault,
                analyse_fetched(condition_id, Head(rest),
                                fetch_profile(acc, Head(rest).user, profiles,
                                              fault)))

\* after the loop: sort by score, highest first, and keep the top entries;
\* an exception skips both
sort_and_truncate(done) ==
    IF done.raised THEN done
    ELSE [ done EXCEPT !.result.suspicious_trades =
             SubSeq(SortByScore(@), 1, Min(Len(@), max_suspicious_trades)) ]

except_handler_absent(done) == [ done EXCEPT !.escaped = done.raised ]

\* except Exception as e: result.error = str(e)
except_handler(done) ==
    [ done EXCEPT !.result.error = IF done.raised THEN "raised" ELSE @,
                  !.escaped = FALSE ]

\* the state backtest_market starts from, with total_trades fetched trades
start_of_backtest(total_trades, history) ==
    [ result  |-> [ NoBacktest EXCEPT !.total_trades = total_trades ],
      history |-> history, samples |-> 0, raised |-> FALSE, escaped |-> FALSE ]

\* the try block of backtest_market
try_backtest(condition_id, trades, profiles, history, fault) ==
    IF fault = "trades"
    THEN [ start_of_backtest(0, history) EXCEPT !.raised = TRUE ]
    ELSE IF trades = << >>
    THEN [ start_of_backtest(0, history) EXCEPT
             !.result.error = "No trades found for this market" ]
    ELSE IF fault = "market"
    THEN [ start_of_backtest(Len(trades), history) EXCEPT !.raised = TRUE ]
    ELSE sort_and_truncate(
             replay(condition_id, trades, profiles, fault,
                    start_of_backtest(Len(trades), history)))

backtest_market(condition_id, trades, profiles, history, fault) ==
    except_handler(try_backtest(condition_id, trades, profiles, history, fault))

\* the rank (1-indexed) of the first entry whose trader is the insider, or 0
RECURSIVE insider_index(_, _, _)
insider_index_case_sensitive(entries, insider_wallet, i) ==
    IF i > Len(entries) THEN 0
    ELSE IF entries[i].trader = insider_wallet THEN i
    ELSE insider_index(entries, insider_wallet, i + 1)

\* for i, trade in enumerate(result.suspicious_trades): first match wins
insider_index(entries, insider_wallet, i) ==
    IF i > Len(entries) THEN 0
    ELSE IF lower(entries[i].trader) = insider_wallet THEN i
    ELSE insider_index(entries, insider_wallet, i + 1)

passed_insider_only(found, insider_score, top_score, min_score) ==
    found /\ insider_score # 0 /\ insider_score >= min_score

\* (insider_found and insider_score and insider_score >= min) or top_score >= min
passed(found, insider_score, top_score, min_score) ==
    \/ (found /\ insider_score # 0 /\ insider_score >= min_score)
    \/ top_score >= min_score

\* run_known_case after backtest_market returned b
track_insider(case, b) ==
    LET insider_wallet == lower(case.insider_wallet)
        rank  == IF insider_wallet = "" THEN 0
                 ELSE insider_index(b.result.suspicious_trades, insider_wallet, 1)
        insider_score == IF rank > 0 THEN b.result.suspicious_trades[rank].score
                         ELSE None
    IN  [ result |->
            [ b.result EXCEPT
                !.case_id = case.id,
                !.expected_min_score = case.expected_min_score,
                !.insider_wallet = case.insider_wallet,
                !.insider_found = rank > 0,
                !.insider_score = insider_score,
                !.insider_rank = IF rank > 0 THEN rank ELSE None,
                !.passed = IF passed(rank > 0, insider_score, b.result.top_score,
                                     case.expected_min_score)
                           THEN "True" ELSE "False" ],
          market |-> case.condition_id, history |-> b.history,
          samples |-> b.samples ]

\* the except branch of run_known_case: a new BacktestResult with the error
known_case_failed(case, b) ==
    [ result |-> [ NoBacktest EXCEPT
                     !.case_id = case.id,
                     !.expected_min_score = case.expected_min_score,
                     !.error = "raised" ],
      market |-> case.condition_id, history |-> b.history,
      samples |-> b.samples ]

\* the try / except of run_known_case around backtest_market's return b
after_backtest(case, b) ==
    IF b.escaped THEN known_case_failed(case, b) ELSE track_insider(case, b)

run_known_case(case_id, trades, profiles, histories, fault) ==
    IF case_id \notin DOMAIN KNOWN_CASES
    THEN [ result  |-> [ NoBacktest EXCEPT !.case_id = case_id,
                                           !.error = "Unknown case" ],
           market |-> "", history |-> << >>, samples |-> 0 ]
    ELSE after_backtest(
             KNOWN_CASES[case_id],
             backtest_market(KNOWN_CASES[case_id].condition_id, trades, profiles,
                             histories[KNOWN_CASES[case_id].condition_id], fault))

----------------------------------------------------------------------------
(* Inputs *)

Markets == { "m1", "m2" }
LongMarket == "m1"

\* volume24hr values: absent (what the scan and the backtester pass, read as
\* 0) is the baseline; the others are spikes
BaseVolume == None
Volumes == { BaseVolume, 3, 30 }

WP(tt, um, vol, wr, age) ==
    [ total_trades |-> tt, unique_markets |-> um, total_volume_usd |-> vol,
      win_rate |-> wr, first_seen |-> age ]

WalletProfiles ==
    { WP(0, 0, 0, None, None),      \* what a failed lookup produces
      WP(5, 3, 100, None, 6),
      WP(9, 4, 900, 95, 7),
      WP(20, 10, 500, 85, 29),
      WP(21, 11, 40000, 75, 30),
      WP(50, 25, 40000, 74, None) }

TD(size, price, ts) ==
    [ market |-> LongMarket, maker |-> "0xaaaaaaaaaa", side |-> "BUY",
      size |-> size, price |-> price, timestamp |-> ts ]

\* prices: 0.07 on the venue's 0..1 scale, then 10, 11, 20, 30 and 31 cents
Prices == { 7, 1000, 1100, 2000, 3000, 3100 }

TradeDatas ==
    { TD(1000, p, "aware") : p \in Prices }
    \cup { TD(100000, p, "aware") : p \in { 1000, 3100 } }
    \cup { TD(1000, 1500, ts) : ts \in { "naive", "absent", "bad" } }

ED(kind, hours) == [ kind |-> kind, hours |-> hours ]
NoEndDate == ED("absent", 0)
EndDates == { NoEndDate, ED("aware", 12), ED("aware", 30), ED("naive", 72) }

MarketDatas == { [ volume24hr |-> None, endDate |-> e ] : e \in EndDates }

\* Batch trades: one market, a fixed size and price
BT(id, maker, side, timestamp) ==
    [ id |-> id, market |-> LongMarket, maker |-> maker, side |-> side,
      timestamp |-> timestamp, size |-> 1000, price |-> 5000 ]

WalletName == << "w1", "w2", "w3", "w4", "w5", "w6", "w7", "w8", "w9" >>

Reverse(seq) == [ i \in 1..Len(seq) |-> seq[Len(seq) + 1 - i] ]

\* a batch as the venue may deliver it: oldest first or newest first
Feeds(batches) == batches \cup { Reverse(b) : b \in batches }

\* Four trades of four distinct wallets, all BUY, at minutes t1 <= .. <= t4
FourTimes == { 0, 2, 10, 23, 24, 60, 120, 180 }

FourTradeBatches ==
    { << BT(1, "w1", "BUY", t1), BT(2, "w2", "BUY", t2),
         BT(3, "w3", "BUY", t3), BT(4, "w4", "BUY", t4) >> :
        t1 \in { 0 }, t2 \in FourTimes, t3 \in FourTimes, t4 \in FourTimes }

\* General batches: every trade comes ClusterGaps minutes after the one
\* before it, from a new wallet or again from the first one, buying or
\* selling; at most MaxOdd trades of a batch sell or repeat a wallet.
ClusterGaps == { 1, 15, 31 }
Sides == { "BUY", "SELL" }

Odd(b) == Cardinality({ i \in 1..Len(b) :
                          b[i].side = "SELL" \/ (i > 1 /\ b[i].maker = "w1") })

MaxBatch == 5        \* trades in a general batch
MaxOdd == 1          \* trades of a general batch that sell or repeat a wallet

RECURSIVE Batches(_)
Batches(n) ==
    IF n = 0 THEN { << >> }
    ELSE LET prev == Batches(n - 1)
             full == { b \in prev : Len(b) = n - 1 }
             more == { Append(b, BT(n, IF rep THEN "w1" ELSE WalletName[n], sd,
                                    IF n = 1 THEN 0 ELSE b[n - 1].timestamp + g)) :
                         b \in full, g \in ClusterGaps, sd \in Sides,
                         rep \in BOOLEAN }
         IN  prev \cup { b \in more : Odd(b) <= MaxOdd }

Windows == { 30 }
NoClusters == [ returned |-> << >>, built |-> << >>, open |-> { } ]

\* Cascade batches: trade i comes at minute i from its own wallet, buying
\* or selling; the first five are worth $500 or $1000, the later ones $500
CascadeSizes(i) == IF i <= 5 THEN { 1000, 2000 } ELSE { 1000 }

CT(i, side, size) ==
    [ maker |-> WalletName[i], side |-> side, timestamp |-> i,
      size |-> size, price |-> 50 * PriceDen ]

MaxCascade == 8      \* trades in a cascade batch

RECURSIVE CascadeBatches(_)
CascadeBatches(n) ==
    IF n = 0 THEN { << >> }
    ELSE LET prev == CascadeBatches(n - 1)
             full == { b \in prev : Len(b) = n - 1 }
         IN  prev \cup { Append(b, CT(n, sd, sz)) :
                           b \in full, sd \in Sides, sz \in CascadeSizes(n) }

\* Fetched trades of a backtest
FT(user, price, ts) ==
    [ user |-> user, side |-> "BUY", size |-> 1000, price |-> price,
      timestamp |-> ts ]

FetchedTrades ==
    { FT(InsiderLower, 7, "aware"), FT(InsiderMixed, 50 * PriceDen, "aware"),
      FT(OtherWallet, 7, "aware"), FT(OtherWallet, 50 * PriceDen, "aware"),
      FT(ShortWallet, 7, "aware"), FT(OtherWallet, 7, "bad") }

MaxFetched == 3      \* trades a backtest fetches

RECURSIVE SeqsUpTo(_, _)
SeqsUpTo(S, n) ==
    IF n = 0 THEN { << >> }
    ELSE LET prev == SeqsUpTo(S, n - 1)
         IN  prev \cup { Append(b, x) : b \in { q \in prev : Len(q) = n - 1 },
                                        x \in S }

\* what the profile lookup knows about the two wallets
ProfileMaps ==
    { [ a \in { InsiderLower, OtherWallet } |->
          IF a = InsiderLower THEN p1 ELSE p2 ] :
        p1 \in { WP(0, 0, 0, None, None), WP(21, 11, 40000, 75, 30) },
        p2 \in { WP(50, 25, 40000, 74, None), WP(5, 3, 100, None, 6) } }

Faults == { "none", "trades", "market", "wallet" }

CaseIds == { "maduro_capture", "nobel_peace_prize", "unknown_case" }

\* bounds
MaxCalls == 4        \* analyze calls for LongMarket under Spec
MaxOtherCalls == 1   \* analyze calls for every other market under SpecHistory
MaxSpikes == 1       \* calls whose volume24hr is not the baseline
MaxOverflow == 2     \* calls beyond the history cap under SpecHistory

NoResult ==
    [ ret |-> "init", market |-> "", signals |-> NoSignals, flags |-> << >>,
      severity_score |-> 0, suspicion_score |-> None, severity |-> "none",
      zNum |-> 0, zDenSq |-> 1, volume_zscore |-> FALSE,
      wallet |-> _build_wallet_profile(WP(0, 0, 0, None, None)) ]

----------------------------------------------------------------------------
(* Specification of the detector *)

InitDetector ==
    /\ volume_history = [ m \in Markets |-> << >> ]
    /\ arrivals = [ m \in Markets |-> << >> ]
    /\ last = NoResult
    /\ spikes_left = MaxSpikes
    /\ clock = 0

ClustersIdle ==
    /\ cl_trades = << >>
    /\ cl_window = 30
    /\ cl_result = NoClusters
    /\ cl_pc = "idle"

CascadeIdle ==
    /\ ca_trades = << >>
    /\ ca_result = NoCascade
    /\ ca_pc = "idle"

BacktestIdle ==
    /\ bt_trades = << >>
    /\ bt_profiles = [ a \in { InsiderLower, OtherWallet } |-> WP(0, 0, 0, None, None) ]
    /\ bt_fault = "none"
    /\ bt_result = NoBacktest
    /\ bt_pc = "idle"

\* the tasks that share the detector: a backtest and a scan
Tasks == { "backtest", "scan" }

TasksIdle ==
    /\ task_pc = [ t \in Tasks |-> "await" ]
    /\ task_read = [ t \in Tasks |-> << >> ]
    /\ task_left = [ t \in Tasks |-> 0 ]

\* the scans that may run at the same time: the scheduled one and one
\* started by hand
Scans == { "scheduled", "manual" }

ScansIdle ==
    /\ alerts_store = << >>
    /\ seen_trade_keys = { }
    /\ scan_pc = [ t \in Scans |-> "loop" ]
    /\ scan_left = 0
    /\ alerted = [ ever |-> { }, again |-> { } ]

Init ==
    /\ InitDetector
    /\ ClustersIdle
    /\ CascadeIdle
    /\ BacktestIdle
    /\ TasksIdle
    /\ ScansIdle
    /\ wallet_profile \in WalletProfiles
    /\ trade_data \in TradeDatas
    /\ market_data \in MarketDatas
    /\ calls_left = [ m \in Markets |-> IF m = LongMarket THEN MaxCalls ELSE 0 ]

\* The caller's wallet dict gives first_seen as the account age at the start;
\* the detector measures the age against datetime.utcnow() at the call.
at_call_time(wp, now) ==
    [ wp EXCEPT !.first_seen = IF @ = None THEN None ELSE @ + now ]

\* The caller analyses its trade in market m while the market's 24h volume
\* is v: one call of detector.analyze_trade_detailed.
Analyze(m, v) ==
    /\ calls_left[m] > 0
    /\ v # BaseVolume => spikes_left > 0
    /\ LET td == [ trade_data EXCEPT !.market = m ]
           md == [ market_data EXCEPT !.volume24hr = v ]
           r  == analyze_trade_detailed(volume_history[m], td,
                                        at_call_time(wallet_profile, clock), md)
       IN  /\ volume_history' = [ volume_history EXCEPT ![m] = r.history ]
           /\ arrivals' = IF r.sampled
                          THEN [ arrivals EXCEPT ![m] =
                                   Append(@, IF v = None THEN 0 ELSE v) ]
                          ELSE arrivals
           /\ last' = [ ret |-> r.ret, market |-> m, signals |-> r.signals,
                        flags |-> r.flags,
                        severity_score |-> r.severity_score,
                        suspicion_score |-> r.suspicion_score,
                        severity |-> r.severity,
                        zNum |-> r.zNum, zDenSq |-> r.zDenSq,
                        volume_zscore |-> r.volume_zscore,
                        wallet |-> r.wallet ]
           /\ trade_data' = td
           /\ market_data' = md
    /\ calls_left' = [ calls_left EXCEPT ![m] = @ - 1 ]
    /\ spikes_left' = IF v # BaseVolume THEN spikes_left - 1 ELSE spikes_left
    /\ UNCHANGED << wallet_profile, clock >>
    /\ UNCHANGED << cluster_vars, cascade_vars, backtest_vars, task_vars, scan_vars >>

Next == \E m \in Markets, v \in Volumes : Analyze(m, v)

Spec == Init /\ [][Next]_vars

\* Long runs on one market with a fixed trade and wallet: the volume history
\* fills up and overflows its cap.
InitHistory ==
    /\ InitDetector
    /\ ClustersIdle
    /\ CascadeIdle
    /\ BacktestIdle
    /\ TasksIdle
    /\ ScansIdle
    /\ wallet_profile = WP(50, 25, 40000, 74, None)
    /\ trade_data = TD(1000, 5000, "aware")
    /\ market_data = [ volume24hr |-> None, endDate |-> NoEndDate ]
    /\ calls_left = [ m \in Markets |->
                        IF m = LongMarket THEN volume_history_cap + MaxOverflow
                        ELSE MaxOtherCalls ]

\* the baseline and one spike
HistoryVolumes == { BaseVolume, 30 }

NextHistory == \E m \in Markets, v \in HistoryVolumes : Analyze(m, v)

SpecHistory == InitHistory /\ [][NextHistory]_vars

----------------------------------------------------------------------------
(* Two calls with the same inputs, each on a fresh volume history *)

MaxClock == 1        \* days that go by

\* a detector with a fresh volume history: InsiderDetector()
Reset ==
    /\ \E m \in Markets : volume_history[m] # << >>
    /\ volume_history' = [ m \in Markets |-> << >> ]
    /\ arrivals' = [ m \in Markets |-> << >> ]
    /\ UNCHANGED << trade_data, wallet_profile, market_data, last, calls_left,
                    spikes_left, clock >>
    /\ UNCHANGED << cluster_vars, cascade_vars, backtest_vars, task_vars, scan_vars >>

\* a day goes by
Tick ==
    /\ clock < MaxClock
    /\ clock' = clock + 1
    /\ UNCHANGED << volume_history, arrivals, trade_data, wallet_profile,
                    market_data, last, calls_left, spikes_left >>
    /\ UNCHANGED << cluster_vars, cascade_vars, backtest_vars, task_vars, scan_vars >>

InitTwice ==
    /\ InitDetector
    /\ ClustersIdle
    /\ CascadeIdle
    /\ BacktestIdle
    /\ TasksIdle
    /\ ScansIdle
    /\ wallet_profile \in WalletProfiles
    /\ trade_data \in TradeDatas
    /\ market_data \in MarketDatas
    /\ calls_left = [ m \in Markets |-> IF m = LongMarket THEN 2 ELSE 0 ]

NextTwice ==
    \/ \E m \in Markets : Analyze(m, BaseVolume)
    \/ Reset
    \/ Tick

SpecTwice == InitTwice /\ [][NextTwice]_vars

----------------------------------------------------------------------------
(* One call per wallet and price around the tier boundaries *)

\* total_trades around the tiers: 0, 3, 5 | 6, 20 | 21
TierTrades == { 0, 3, 5, 6, 20, 21 }
\* account ages in days around the tiers, and no first_seen
TierAges == { None, 6, 7, 29, 30 }
\* prices: 0 (no price), 0.07, then 10, 10.01, 20, 20.01, 30, 30.01 and
\* 50 cents
TierPrices == { 0, 7, 1000, 1001, 2000, 2001, 3000, 3001, 5000 }

InitSignals ==
    /\ InitDetector
    /\ ClustersIdle
    /\ CascadeIdle
    /\ BacktestIdle
    /\ TasksIdle
    /\ ScansIdle
    /\ wallet_profile \in { WP(tt, 12, 100, None, age) :
                                tt \in TierTrades, age \in TierAges }
    /\ trade_data \in { TD(1000, p, "aware") : p \in TierPrices }
    /\ market_data = [ volume24hr |-> None, endDate |-> NoEndDate ]
    /\ calls_left = [ m \in Markets |-> IF m = LongMarket THEN 1 ELSE 0 ]

NextSignals == \E m \in Markets : Analyze(m, BaseVolume)

SpecSignals == InitSignals /\ [][NextSignals]_vars

----------------------------------------------------------------------------
(* Specification of the cluster detector *)

DetectorIdle ==
    /\ InitDetector
    /\ wallet_profile = WP(0, 0, 0, None, None)
    /\ trade_data = TD(1000, 5000, "aware")
    /\ market_data = [ volume24hr |-> None, endDate |-> NoEndDate ]
    /\ calls_left = [ m \in Markets |-> 0 ]

\* one call of detector.detect_wallet_clusters(cl_trades, cl_window)
DetectWalletClusters ==
    /\ cl_pc = "ready"
    /\ cl_result' = detect_wallet_clusters(cl_trades, cl_window)
    /\ cl_pc' = "done"
    /\ UNCHANGED << cl_trades, cl_window >>
    /\ UNCHANGED << detector_vars, cascade_vars, backtest_vars, task_vars, scan_vars >>

NextClusters == DetectWalletClusters

InitClusters ==
    /\ DetectorIdle
    /\ CascadeIdle
    /\ BacktestIdle
    /\ TasksIdle
    /\ ScansIdle
    /\ cl_trades \in Feeds(Batches(MaxBatch))
    /\ cl_window \in Windows
    /\ cl_result = NoClusters
    /\ cl_pc = "ready"

SpecClusters == InitClusters /\ [][NextClusters]_vars

InitFourTrades ==
    /\ DetectorIdle
    /\ CascadeIdle
    /\ BacktestIdle
    /\ TasksIdle
    /\ ScansIdle
    /\ cl_trades \in Feeds(FourTradeBatches)
    /\ cl_window = 30
    /\ cl_result = NoClusters
    /\ cl_pc = "ready"

SpecFourTrades == InitFourTrades /\ [][NextClusters]_vars

----------------------------------------------------------------------------
(* Bursts of mixed sides and spreads, each closed by a late trade *)

CorrelationSizes == { 3, 4, 5 }
\* minutes between consecutive trades of a burst
CorrelationGaps == { 0, 11, 12, 40 }
CorrelationWindows == { 30, 90 }

\* n trades of n wallets, any sides, CorrelationGaps apart
RECURSIVE Bursts(_)
Bursts(n) ==
    IF n = 0 THEN { << >> }
    ELSE { Append(b, BT(n, WalletName[n], sd,
                        IF n = 1 THEN 0 ELSE b[n - 1].timestamp + g)) :
             b \in Bursts(n - 1), g \in CorrelationGaps, sd \in Sides }

\* a trade later than every window after the burst
ClosedBursts ==
    { Append(b, BT(Len(b) + 1, WalletName[Len(b) + 1], "BUY",
                   b[Len(b)].timestamp + 100)) :
        b \in UNION { Bursts(n) : n \in CorrelationSizes } }

InitCorrelation ==
    /\ DetectorIdle
    /\ CascadeIdle
    /\ BacktestIdle
    /\ TasksIdle
    /\ ScansIdle
    /\ cl_trades \in ClosedBursts
    /\ cl_window \in CorrelationWindows
    /\ cl_result = NoClusters
    /\ cl_pc = "ready"

SpecCorrelation == InitCorrelation /\ [][NextClusters]_vars

----------------------------------------------------------------------------
(* Batches over two markets with several clusters per market *)

\* a BUY trade of the given market
MT(id, market, maker, timestamp) ==
    [ BT(id, maker, "BUY", timestamp) EXCEPT !.market = market ]

MarketGaps == { 1, 31 }
LongLists == 0..7        \* trades of the first market
ShortLists == 0..4       \* trades of the second market

\* n trades of one market, the first at minute 0, ids from base + 1
RECURSIVE MarketList(_, _, _)
MarketList(market, base, n) ==
    IF n = 0 THEN { << >> }
    ELSE { Append(b, MT(base + n, market, WalletName[n],
                        IF n = 1 THEN 0 ELSE b[n - 1].timestamp + g)) :
             b \in MarketList(market, base, n - 1), g \in MarketGaps }

TwoMarketBatches ==
    { a \o b : a \in UNION { MarketList("m1", 0, n) : n \in LongLists },
               b \in UNION { MarketList("m2", 10, n) : n \in ShortLists } }

InitMarkets ==
    /\ DetectorIdle
    /\ CascadeIdle
    /\ BacktestIdle
    /\ TasksIdle
    /\ ScansIdle
    /\ cl_trades \in Feeds(TwoMarketBatches)
    /\ cl_window = 30
    /\ cl_result = NoClusters
    /\ cl_pc = "ready"

SpecMarkets == InitMarkets /\ [][NextClusters]_vars

----------------------------------------------------------------------------
(* Specification of the cascade detector *)

\* one call of detector.detect_information_cascade(market_id, ca_trades)
DetectInformationCascade ==
    /\ ca_pc = "ready"
    /\ ca_result' = detect_information_cascade(LongMarket, ca_trades)
    /\ ca_pc' = "done"
    /\ UNCHANGED ca_trades
    /\ UNCHANGED << detector_vars, cluster_vars, backtest_vars, task_vars, scan_vars >>

NextCascade == DetectInformationCascade

InitCascade ==
    /\ DetectorIdle
    /\ ClustersIdle
    /\ BacktestIdle
    /\ TasksIdle
    /\ ScansIdle
    /\ ca_trades \in Feeds(CascadeBatches(MaxCascade))
    /\ ca_result = NoCascade
    /\ ca_pc = "ready"

SpecCascade == InitCascade /\ [][NextCascade]_vars

----------------------------------------------------------------------------
(* Batches whose trades are worth $999 or $1000 at any position *)

SparkLengths == { 6, 7 }
SparkSizes == { 1998, 2000 }

\* n trades a minute apart; the trade at position sell, if any, sells
RECURSIVE SparkBatches(_, _)
SparkBatches(n, sell) ==
    IF n = 0 THEN { << >> }
    ELSE { Append(b, CT(n, IF n = sell THEN "SELL" ELSE "BUY", sz)) :
             b \in SparkBatches(n - 1, sell), sz \in SparkSizes }

InitSpark ==
    /\ DetectorIdle
    /\ ClustersIdle
    /\ BacktestIdle
    /\ TasksIdle
    /\ ScansIdle
    /\ ca_trades \in Feeds(UNION { SparkBatches(n, sell) :
                                     n \in SparkLengths, sell \in 0..7 })
    /\ ca_result = NoCascade
    /\ ca_pc = "ready"

SpecSpark == InitSpark /\ [][NextCascade]_vars

----------------------------------------------------------------------------
(* Specification of the backtester *)

RECURSIVE Zeros(_)
Zeros(n) == IF n = 0 THEN << >> ELSE Append(Zeros(n - 1), 0)

\* the effect of a call that returned r: the replay goes through the shared
\* detector and so leaves its samples in the market's volume history
apply_backtest(r) ==
    /\ bt_result' = r.result
    /\ volume_history' =
           IF r.market = "" THEN volume_history
           ELSE [ volume_history EXCEPT ![r.market] = r.history ]
    /\ arrivals' =
           IF r.market = "" THEN arrivals
           ELSE [ arrivals EXCEPT ![r.market] = @ \o Zeros(r.samples) ]

\* one call of backtester.run_known_case(case_id)
RunKnownCase(case_id) ==
    /\ bt_pc = "ready"
    /\ apply_backtest(run_known_case(case_id, bt_trades, bt_profiles,
                                     volume_history, bt_fault))
    /\ bt_pc' = "done"
    /\ UNCHANGED << bt_trades, bt_profiles, bt_fault >>
    /\ UNCHANGED << trade_data, wallet_profile, market_data, last, calls_left,
                    spikes_left, clock >>
    /\ UNCHANGED << cluster_vars, cascade_vars, task_vars, scan_vars >>

NextBacktest == \E case_id \in CaseIds : RunKnownCase(case_id)

InitBacktest ==
    /\ DetectorIdle
    /\ ClustersIdle
    /\ CascadeIdle
    /\ TasksIdle
    /\ ScansIdle
    /\ bt_trades \in SeqsUpTo(FetchedTrades, MaxFetched)
    /\ bt_profiles \in ProfileMaps
    /\ bt_fault \in Faults
    /\ bt_result = NoBacktest
    /\ bt_pc = "ready"

SpecBacktest == InitBacktest /\ [][NextBacktest]_vars

----------------------------------------------------------------------------
(* Replays on a market whose volume history earlier runs have filled *)

\* prices as the venue gives them, 0.07, 0.5 and 1 on its 0..1 scale, and
\* prices already in cents, 31 and 50
ReplayTrades ==
    { FT(InsiderLower, 7, "aware"), FT(OtherWallet, 50, "aware"),
      FT(InsiderMixed, 100, "aware"), FT(OtherWallet, 31 * PriceDen, "aware"),
      FT(OtherWallet, 50 * PriceDen, "aware") }

ReplayLengths == { 1, 2 }
\* samples that earlier replays and scans left in a market's history
EarlierSamples == { 0, 3, 30 }

InitReplay ==
    /\ ClustersIdle
    /\ CascadeIdle
    /\ TasksIdle
    /\ ScansIdle
    /\ \E n \in EarlierSamples :
          /\ volume_history = [ m \in Markets |-> Zeros(n) ]
          /\ arrivals = [ m \in Markets |-> Zeros(n) ]
    /\ last = NoResult
    /\ spikes_left = MaxSpikes
    /\ clock = 0
    /\ wallet_profile = WP(0, 0, 0, None, None)
    /\ trade_data = TD(1000, 5000, "aware")
    /\ market_data = [ volume24hr |-> None, endDate |-> NoEndDate ]
    /\ calls_left = [ m \in Markets |-> 0 ]
    /\ bt_trades \in { q \in SeqsUpTo(ReplayTrades, 2) : Len(q) \in ReplayLengths }
    /\ bt_profiles \in ProfileMaps
    /\ bt_fault = "none"
    /\ bt_result = NoBacktest
    /\ bt_pc = "ready"

NextReplay == \E case_id \in DOMAIN KNOWN_CASES : RunKnownCase(case_id)

SpecReplay == InitReplay /\ [][NextReplay]_vars

----------------------------------------------------------------------------
(* Tasks of one event loop that share the detector *)

MaxTaskCalls == 16   \* analyze calls of each task

\* variant: a task may be suspended anywhere
can_switch_anywhere(pc) == TRUE

\* another task runs only while this one is at an await; analyze_trade_detailed
\* and _check_volume_anomaly are plain functions without an await
can_switch(pc) == pc = "await"

\* task t resumes after its awaited wallet lookup and enters the detector:
\* history = self.volume_history.get(market_id, [])
EnterAnalyze(t) ==
    /\ task_pc[t] = "await"
    /\ task_left[t] > 0
    /\ \A u \in Tasks \ { t } : can_switch(task_pc[u])
    /\ task_pc' = [ task_pc EXCEPT ![t] = "in_call" ]
    /\ task_read' = [ task_read EXCEPT ![t] = volume_history[LongMarket] ]
    /\ UNCHANGED << task_left, detector_vars >>
    /\ UNCHANGED << cluster_vars, cascade_vars, backtest_vars, scan_vars >>

\* task t computes the z-score from what it read, appends its sample, evicts
\* and returns to its loop, where it awaits the next lookup
LeaveAnalyze(t) ==
    /\ task_pc[t] = "in_call"
    /\ volume_history' =
           [ volume_history EXCEPT ![LongMarket] =
               _check_volume_anomaly(task_read[t], backtest_market_data).history ]
    /\ arrivals' = [ arrivals EXCEPT ![LongMarket] = Append(@, 0) ]
    /\ task_pc' = [ task_pc EXCEPT ![t] = "await" ]
    /\ task_read' = [ task_read EXCEPT ![t] = << >> ]
    /\ task_left' = [ task_left EXCEPT ![t] = @ - 1 ]
    /\ UNCHANGED << trade_data, wallet_profile, market_data, last, calls_left,
                    spikes_left, clock >>
    /\ UNCHANGED << cluster_vars, cascade_vars, backtest_vars, scan_vars >>

InitTasks ==
    /\ DetectorIdle
    /\ ClustersIdle
    /\ CascadeIdle
    /\ BacktestIdle
    /\ ScansIdle
    /\ task_pc = [ t \in Tasks |-> "await" ]
    /\ task_read = [ t \in Tasks |-> << >> ]
    /\ task_left = [ t \in Tasks |-> MaxTaskCalls ]

NextTasks == \E t \in Tasks : EnterAnalyze(t) \/ LeaveAnalyze(t)

SpecTasks == InitTasks /\ [][NextTasks]_vars

----------------------------------------------------------------------------
(* Scans: main.scan_for_suspicious_activity *)

\* The store keeps 500 alerts and the key set is reset above 10000 keys; the
\* model keeps these few, with the key limit above the alert limit as in
\* the program.
alerts_cap == 2
seen_keys_cap == 3
MaxScanTrades == 6   \* trades the scans process

\* f"{trader_address}:{market_id}:{price:.2f}:{shares:.2f}:{timestamp.isoformat()}"
\* (prices and sizes of the model have no digits beyond the second decimal)
_get_trade_key(trade, timestamp) ==
    << trade.trader_address, trade.market_id, trade.price, trade.shares,
       timestamp >>

\* the key of a stored alert: _get_trade_key(a.suspicious_trade.trade)
AlertKey(a) == _get_trade_key(a.trade, a.timestamp)

\* while len(alerts_store) > 500: alerts_store.pop()
trim_alerts(store) == SubSeq(store, 1, Min(Len(store), alerts_cap))

\* variant: the key set is cleared and left empty
repopulate_nothing(store) == { }

\* for a in alerts_store: seen_trade_keys.add(_get_trade_key(...))
repopulate(store) == { AlertKey(store[i]) : i \in 1..Len(store) }

\* if len(seen_trade_keys) > 10000: clear and repopulate
limit_seen_keys(seen, store) ==
    IF Cardinality(seen) > seen_keys_cap THEN repopulate(store) ELSE seen

\* the market_data a scan builds: no volume24hr key, no endDate key
scan_market_data == [ volume24hr |-> None, endDate |-> NoEndDate ]

\* large trades the venue reports to a scan: a wallet without history that
\* buys at 0.07 to 0.11, and a seasoned wallet that buys at 50 cents
SeasonedWallet == "0xbbbbbbbbbb"
ScanPrices == { 7, 8, 9, 10, 11 }
ScanTrades ==
    { TD(1000, p, "aware") : p \in ScanPrices }
    \cup { [ TD(1000, 5000, "aware") EXCEPT !.maker = SeasonedWallet ] }

\* client.get_wallet_profile(trader_address)
scan_wallet_profile(trader_address) ==
    IF trader_address = SeasonedWallet THEN WP(50, 25, 40000, 74, None)
    ELSE WP(0, 0, 0, None, None)

\* scan t resumes after the wallet lookup for trade td and runs up to its
\* next await: the notifier when the alert is new, else the next lookup
ProcessTrade(t, td) ==
    /\ scan_pc[t] = "loop"
    /\ scan_left > 0
    /\ scan_left' = scan_left - 1
    /\ LET r   == analyze_trade_detailed(volume_history[td.market], td,
                                         scan_wallet_profile(td.maker),
                                         scan_market_data)
           trade == _build_trade(td, scan_market_data)
           trade_key == _get_trade_key(trade, td.timestamp)
           alert == [ trade |-> trade, timestamp |-> td.timestamp,
                      severity |-> r.severity ]
       IN  /\ volume_history' = [ volume_history EXCEPT ![td.market] = r.history ]
           /\ arrivals' = IF r.sampled
                          THEN [ arrivals EXCEPT ![td.market] = Append(@, 0) ]
                          ELSE arrivals
           /\ IF r.ret # "SuspiciousTrade"
              THEN UNCHANGED << alerts_store, seen_trade_keys, scan_pc, alerted >>
              ELSE IF trade_key \notin seen_trade_keys
              THEN /\ seen_trade_keys' = seen_trade_keys \cup { trade_key }
                   /\ alerts_store' = << alert >> \o alerts_store
                   /\ alerted' =
                         [ ever  |-> alerted.ever \cup { trade_key },
                           again |-> alerted.again
                                       \cup (alerted.ever \cap { trade_key }) ]
                   /\ scan_pc' = [ scan_pc EXCEPT ![t] = "notify" ]
              ELSE /\ alerts_store' = trim_alerts(alerts_store)
                   /\ seen_trade_keys' =
                         limit_seen_keys(seen_trade_keys,
                                         trim_alerts(alerts_store))
                   /\ UNCHANGED << scan_pc, alerted >>
    /\ UNCHANGED << trade_data, wallet_profile, market_data, last, calls_left,
                    spikes_left, clock >>
    /\ UNCHANGED << cluster_vars, cascade_vars, backtest_vars, task_vars >>

\* scan t resumes after the notifier: the store is cut and the key set limited
AfterNotify(t) ==
    /\ scan_pc[t] = "notify"
    /\ alerts_store' = trim_alerts(alerts_store)
    /\ seen_trade_keys' =
          limit_seen_keys(seen_trade_keys, trim_alerts(alerts_store))
    /\ scan_pc' = [ scan_pc EXCEPT ![t] = "loop" ]
    /\ UNCHANGED << scan_left, alerted >>
    /\ UNCHANGED << detector_vars, cluster_vars, cascade_vars, backtest_vars,
                    task_vars >>

InitScans ==
    /\ DetectorIdle
    /\ ClustersIdle
    /\ CascadeIdle
    /\ BacktestIdle
    /\ TasksIdle
    /\ alerts_store = << >>
    /\ seen_trade_keys = { }
    /\ scan_pc = [ t \in Scans |-> "loop" ]
    /\ scan_left = MaxScanTrades
    /\ alerted = [ ever |-> { }, again |-> { } ]

NextScans ==
    \E t \in Scans :
        \/ \E td \in ScanTrades : ProcessTrade(t, td)
        \/ AfterNotify(t)

SpecScans == InitScans /\ [][NextScans]_vars

----------------------------------------------------------------------------
(* Claims about analyze_trade_detailed *)

SumScores(signals) ==
    SumSeq([ i \in 1..Len(signals) |-> signals[i].score ])

Returned == last.ret \in { "None", "SuspiciousTrade" }

\* the z-scores n1/sqrt(d1) and n2/sqrt(d2) are the same number
SameZ(n1, d1, n2, d2) == n1 * n2 >= 0 /\ n1 * n1 * d2 = n2 * n2 * d1

\* C1: whenever analyze_trade_detailed returns a SuspiciousTrade, its
\* suspicion_score is min(S, 100) for S the sum of the seven signal scores,
\* hence within [0, 100], and its severity is the band of the unclamped S:
\* critical iff S >= 80, high iff 60 <= S < 80, medium iff 40 <= S < 60,
\* low iff 20 <= S < 40.
C1_ScoreClampedSeverityBanded ==
    last.ret = "SuspiciousTrade" =>
        LET S == SumScores(last.signals)
        IN  /\ last.suspicion_score = (IF S < 100 THEN S ELSE 100)
            /\ last.suspicion_score >= 0 /\ last.suspicion_score <= 100
            /\ (last.severity = "critical") <=> (S >= 80)
            /\ (last.severity = "high") <=> (60 <= S /\ S < 80)
            /\ (last.severity = "medium") <=> (40 <= S /\ S < 60)
            /\ (last.severity = "low") <=> (20 <= S /\ S < 40)

\* a SuspiciousTrade whose unclamped sum exceeds 100
C1_Witness ==
    /\ last.ret = "SuspiciousTrade"
    /\ SumScores(last.signals) > 100
    /\ last.suspicion_score = 100
    /\ last.severity = "critical"

\* C2: a returning call yields None exactly when the sum of the seven signal
\* scores is below 20 and a SuspiciousTrade exactly when it is 20 or more;
\* either way the breakdown has exactly seven entries, in the order fresh
\* wallet, position size, market diversity, volume spike, win rate, timing,
\* extreme odds.
C2_FloorAndFullBreakdown ==
    Returned =>
        /\ (last.ret = "None") <=> (SumScores(last.signals) < 20)
        /\ (last.ret = "SuspiciousTrade") <=> (SumScores(last.signals) >= 20)
        /\ Len(last.signals) = 7
        /\ [ i \in 1..7 |-> last.signals[i].signal ] =
               << "Fresh Wallet", "Position Size", "Market Diversity",
                  "Volume Spike", "Win Rate", "Timing", "Extreme Odds" >>

\* a call that returns None with a nonzero sum and the full breakdown
C2_Witness ==
    /\ last.ret = "None"
    /\ SumScores(last.signals) > 0
    /\ Len(last.signals) = 7

C4_HistoryCappedFifo ==
    \A m \in Markets :
        LET n == Len(arrivals[m])
            k == IF n < 30 THEN n ELSE 30
        IN  /\ Len(volume_history[m]) = k
            /\ volume_history[m] = SubSeq(arrivals[m], n - k + 1, n)

\* after 31 calls the history has 30 samples and the first sample, a spike,
\* is no longer in it
C4_Witness ==
    /\ Len(arrivals[LongMarket]) = 31
    /\ Len(volume_history[LongMarket]) = 30
    /\ arrivals[LongMarket][1] = 30
    /\ \A i \in 1..30 : volume_history[LongMarket][i] = 0

----------------------------------------------------------------------------
(* Claims about detect_wallet_clusters *)

Timestamps(trades) == { trades[i].timestamp : i \in 1..Len(trades) }
Span(trades) ==
    LET ts == Timestamps(trades)
    IN  (CHOOSE t \in ts : \A u \in ts : u <= t)
          - (CHOOSE t \in ts : \A u \in ts : t <= u)

\* the batch is four BUY trades of four distinct wallets in one market
FourBuys ==
    /\ Len(cl_trades) = 4
    /\ \A i \in 1..4 : cl_trades[i].side = "BUY" /\ cl_trades[i].market = LongMarket
    /\ Cardinality({ cl_trades[i].maker : i \in 1..4 }) = 4

\* C5: for four trades in one market, of four distinct wallets, all BUY and
\* within a 10-minute span, detect_wallet_clusters with a 30-minute window
\* returns exactly one cluster, with correlation_score >= 0.9 and
\* is_suspicious true.
C5_BurstYieldsOneCluster ==
    (cl_pc = "done" /\ cl_window = 30 /\ FourBuys /\ Span(cl_trades) <= 10) =>
        /\ Len(cl_result.returned) = 1
        /\ 10 * cl_result.returned[1].correlation_score.num
             >= 9 * cl_result.returned[1].correlation_score.den
        /\ is_suspicious(cl_result.returned[1])

\* the id of the chronologically last trade of market m (the last of the
\* latest ones in batch order)
LastTradeId(m) ==
    LET mt == market_trade_list(cl_trades, m)
        latest == { i \in 1..Len(mt) :
                      \A j \in 1..Len(mt) : mt[j].timestamp <= mt[i].timestamp }
    IN  mt[CHOOSE i \in latest : \A j \in latest : j <= i].id

\* C6: no trade of a market's trailing cluster (the one still in progress
\* when the market's sorted list ends, which always holds the market's last
\* trade) appears in a returned cluster.
C6_TrailingClusterNotReturned ==
    cl_pc = "done" =>
        /\ \A i \in 1..Len(cl_result.returned) :
              cl_result.returned[i].members \cap cl_result.open = { }
        /\ \A k \in 1..Len(cl_trades) :
              cl_trades[k].market # "" =>
                  /\ LastTradeId(cl_trades[k].market) \in cl_result.open
                  /\ \A i \in 1..Len(cl_result.returned) :
                        LastTradeId(cl_trades[k].market)
                            \notin cl_result.returned[i].members

\* a trailing cluster of at least three BUY trades of three wallets within
\* two minutes is dropped: nothing is returned
C6_Witness ==
    /\ cl_pc = "done"
    /\ Len(cl_result.returned) = 0
    /\ Cardinality(cl_result.open) >= 3
    /\ LET open == SelectSeq(cl_trades, LAMBDA t : t.id \in cl_result.open)
       IN  /\ Cardinality({ open[i].maker : i \in 1..Len(open) }) >= 3
           /\ \A i \in 1..Len(open) : open[i].side = "BUY"
           /\ Span(open) <= 2

\* C7 as stated: four BUY trades of four distinct wallets in one market,
\* spread over 3 hours, yield no cluster with a 30-minute window.
C7_SpreadYieldsNoCluster ==
    (cl_pc = "done" /\ cl_window = 30 /\ FourBuys /\ Span(cl_trades) = 180) =>
        Len(cl_result.returned) = 0

\* the three earliest of the four trades
ThreeEarliest == SubSeq(SortByTimestamp(cl_trades), 1, 3)

\* C7 amended: such a batch yields no cluster provided its three earliest
\* trades span at least 24 minutes; when they span less, exactly they are
\* returned as one cluster.
C7_SpreadYieldsNoClusterUnlessBurst ==
    (cl_pc = "done" /\ cl_window = 30 /\ FourBuys /\ Span(cl_trades) = 180) =>
        IF Span(ThreeEarliest) >= 24
        THEN Len(cl_result.returned) = 0
        ELSE /\ Len(cl_result.returned) = 1
             /\ cl_result.returned[1].members = Ids(ThreeEarliest)

\* four trades one hour apart, processed, nothing returned
C7_Witness ==
    /\ cl_pc = "done" /\ cl_window = 30 /\ FourBuys
    /\ Timestamps(cl_trades) = { 0, 60, 120, 180 }
    /\ Len(cl_result.returned) = 0

----------------------------------------------------------------------------
(* Claims about detect_information_cascade *)

\* positions among the five earliest trades of a chronological list whose
\* notional reaches the floor
SparkPositions(chron) ==
    { i \in 1..Min(5, Len(chron)) :
        chron[i].size * chron[i].price >= min_notional_alert * Dollar }

\* the position of the spark, or 0 when there is none
SparkAt(chron) ==
    LET ps == SparkPositions(chron)
    IN  IF ps = { } THEN 0 ELSE CHOOSE i \in ps : \A j \in ps : i <= j

\* positions of the trades other than the spark that have the spark's side
SameSideOthers(chron, at) ==
    { i \in 1..Len(chron) : i # at /\ chron[i].side = chron[at].side }

C9_FollowersComeAfterSpark ==
    (ca_pc = "done" /\ ca_result.ret = "cascade") =>
        LET chron == SortByTimestamp(ca_trades)
            at    == SparkAt(chron)
            after == { i \in SameSideOthers(chron, at) : i > at }
        IN  /\ ca_result.followers = Cardinality(after)
            /\ ca_result.follower_volume =
                  SumSeq([ k \in 1..Len(chron) |->
                             IF k \in after THEN chron[k].size * chron[k].price
                             ELSE 0 ])

----------------------------------------------------------------------------
(* Claims about run_known_case *)

KnownCaseDone == bt_pc = "done" /\ bt_result.case_id \in DOMAIN KNOWN_CASES

\* positions of the result entries that belong to the case's insider wallet
InsiderEntries ==
    { i \in 1..Len(bt_result.suspicious_trades) :
        lower(bt_result.suspicious_trades[i].trader)
            = lower(KNOWN_CASES[bt_result.case_id].insider_wallet) }

\* C10: for a known case, passed is true exactly when the insider wallet is
\* among the result entries with a score of at least expected_min_score, or
\* some entry's score (so the top score) is at least expected_min_score;
\* an insider entry scoring at least the minimum gives passed = true and
\* insider_found = true, with the 1-indexed rank of the first insider entry.
C10_PassedIffInsiderOrTopScore ==
    KnownCaseDone =>
        LET entries == bt_result.suspicious_trades
            min_score == KNOWN_CASES[bt_result.case_id].expected_min_score
        IN  /\ bt_result.passed \in { "True", "False" }
            /\ bt_result.passed = "True" <=>
                  \/ \E i \in InsiderEntries : entries[i].score >= min_score
                  \/ \E i \in 1..Len(entries) : entries[i].score >= min_score
            /\ bt_result.insider_found <=> InsiderEntries # { }
            /\ bt_result.insider_found =>
                  /\ bt_result.insider_rank \in InsiderEntries
                  /\ \A i \in InsiderEntries : bt_result.insider_rank <= i
                  /\ bt_result.insider_score
                        = entries[bt_result.insider_rank].score
            /\ (bt_result.insider_found /\ bt_result.insider_score >= min_score)
                  => bt_result.passed = "True"

\* the insider is found in second place with a score in the sixties, just
\* above the minimum of 60, and the case passes
C10_Witness ==
    /\ KnownCaseDone
    /\ bt_result.insider_found
    /\ bt_result.insider_rank = 2
    /\ bt_result.insider_score >= 60 /\ bt_result.insider_score < 70
    /\ bt_result.passed = "True"

\* the entries are in score order, highest first
ScoreDescending(entries) ==
    \A i \in 1..Len(entries) : \A j \in 1..Len(entries) :
        i < j => entries[i].score >= entries[j].score

C12_EntriesPositiveSortedCapped ==
    KnownCaseDone =>
        LET entries == bt_result.suspicious_trades
        IN  /\ \A i \in 1..Len(entries) : entries[i].score > 0
            /\ ScoreDescending(entries)
            /\ Len(entries) <= max_suspicious_trades
            /\ \A i \in 1..Len(entries) : entries[i].score <= bt_result.top_score
            /\ \/ bt_result.top_score = 0 /\ entries = << >>
               \/ \E i \in 1..Len(entries) :
                     entries[i].score = bt_result.top_score

\* a fetched trade that reaches the wallet lookup
Replayed(trade) == trade.user # "" /\ AddressBook[trade.user].len >= 10

\* a fetched trade at which the loop fails: its wallet lookup raises or the
\* detector raises on it
FailsInReplay(trade) ==
    /\ Replayed(trade)
    /\ \/ bt_fault = "wallet" /\ trade.user = OtherWallet
       \/ trade.timestamp = "bad"

\* C13: run_known_case and backtest_market always return a BacktestResult;
\* its error is set when the case id is unknown, when the trade list is
\* empty and when a fetch or the analysis of a trade raises, and for a known
\* case whose trades were fetched it is backtest_market's own result that
\* comes back (total_trades counted, passed decided).
C13_FailuresBecomeErrorField ==
    bt_pc = "done" =>
        /\ bt_result.case_id \notin DOMAIN KNOWN_CASES => bt_result.error # ""
        /\ bt_result.case_id \in DOMAIN KNOWN_CASES =>
              /\ bt_result.passed \in { "True", "False" }
              /\ bt_fault = "trades" => bt_result.error # ""
              /\ bt_fault # "trades" =>
                    /\ bt_result.total_trades = Len(bt_trades)
                    /\ bt_trades = << >> => bt_result.error # ""
                    /\ bt_fault = "market" => bt_result.error # ""
                    /\ (\E i \in 1..Len(bt_trades) : FailsInReplay(bt_trades[i]))
                          => bt_result.error # ""
                    /\ (/\ bt_trades # << >>
                        /\ bt_fault = "none"
                        /\ \A i \in 1..Len(bt_trades) : ~FailsInReplay(bt_trades[i]))
                          => bt_result.error = ""

\* a wallet lookup fails after one trade was analysed: the error is set and
\* the trade analysed before it is still counted
C13_Witness ==
    /\ KnownCaseDone
    /\ bt_fault = "wallet"
    /\ bt_result.error # ""
    /\ bt_result.trades_analyzed = 1
    /\ bt_result.total_trades = 3

\* C18: within one run every address is handed to the profile lookup at most
\* once, and every entry carries the profile fetched by the first lookup of
\* its address.
C18_OneLookupPerAddress ==
    KnownCaseDone =>
        /\ \A i \in 1..Len(bt_result.lookups) : \A j \in 1..Len(bt_result.lookups) :
              i # j => bt_result.lookups[i] # bt_result.lookups[j]
        /\ \A i \in 1..Len(bt_result.lookups) :
              \E k \in 1..Len(bt_trades) :
                  Replayed(bt_trades[k]) /\ bt_trades[k].user = bt_result.lookups[i]
        /\ \A i \in 1..Len(bt_result.suspicious_trades) :
              LET e == bt_result.suspicious_trades[i]
              IN  /\ e.wallet_trades = bt_profiles[lower(e.trader)].total_trades
                  /\ e.wallet_markets = bt_profiles[lower(e.trader)].unique_markets
                  /\ \E k \in 1..Len(bt_result.lookups) :
                        bt_result.lookups[k] = e.trader

\* three scored trades of one address, one lookup
C18_Witness ==
    /\ KnownCaseDone
    /\ Len(bt_result.suspicious_trades) = 3
    /\ \A i \in 1..3 : bt_result.suspicious_trades[i].trader = OtherWallet
    /\ bt_result.lookups = << OtherWallet >>

----------------------------------------------------------------------------
(* Claims about repeated and malformed calls of analyze_trade_detailed *)

\* the step is a call with the inputs of the call before it, on an empty
\* volume history, for a trade that has a timestamp
SecondCallOnFreshHistory ==
    /\ last.ret # "init"
    /\ \E m \in Markets : calls_left'[m] < calls_left[m]
    /\ volume_history[last'.market] = << >>
    /\ trade_data' = trade_data
    /\ market_data' = market_data
    /\ wallet_profile' = wallet_profile
    /\ trade_data.timestamp # "absent"

\* the two calls gave the same outcome, score, severity, flags and breakdown
SameOutcome ==
    /\ last'.ret = last.ret
    /\ last'.suspicion_score = last.suspicion_score
    /\ last'.severity = last.severity
    /\ last'.flags = last.flags
    /\ last'.signals = last.signals

AgeBracket(days) == IF days < 7 THEN 1 ELSE IF days < 30 THEN 2 ELSE 3

C15_MalformedTimestampNeverRaises ==
    (last.ret # "init" /\ trade_data.timestamp \in { "absent", "bad" })
        => last.ret \in { "None", "SuspiciousTrade" }

----------------------------------------------------------------------------
(* Claims about the tiers of single signals *)

\* what the account age adds to the Fresh Wallet signal
AgePart(first_seen) ==
    IF first_seen = None THEN 0
    ELSE IF first_seen < 7 THEN 20
    ELSE IF first_seen < 30 THEN 10
    ELSE 0

\* C16: apart from the account-age part, the Fresh Wallet signal is 35 with
\* is_fresh_wallet set when total_trades <= 5, 15 when 5 < total_trades <= 20
\* and 0 above, never 50; total_trades = 3 without first_seen scores 35.
C16_FreshWalletTiersExclusive ==
    last.ret \in { "None", "SuspiciousTrade" } =>
        LET tt    == wallet_profile.total_trades
            part  == last.signals[1].score - AgePart(wallet_profile.first_seen)
        IN  /\ last.signals[1].signal = "Fresh Wallet"
            /\ tt <= 5 => (part = 35 /\ last.wallet.is_fresh_wallet)
            /\ (5 < tt /\ tt <= 20) => (part = 15 /\ ~last.wallet.is_fresh_wallet)
            /\ tt > 20 => (part = 0 /\ ~last.wallet.is_fresh_wallet)
            /\ (tt = 3 /\ wallet_profile.first_seen = None)
                   => last.signals[1].score = 35

\* a wallet with 3 trades and no first_seen was analysed and scored 35
C16_Witness ==
    /\ last.ret \in { "None", "SuspiciousTrade" }
    /\ wallet_profile.total_trades = 3
    /\ wallet_profile.first_seen = None
    /\ last.signals[1].score = 35
    /\ last.wallet.is_fresh_wallet

\* C17: the Extreme Odds signal is 30 for price <= 10, 20 for
\* 10 < price <= 20, 10 for 20 < price <= 30 and 0 above; price = 10 gives 30.
C17_ExtremeOddsTiersExclusive ==
    last.ret \in { "None", "SuspiciousTrade" } =>
        LET price == trade_data.price
            odds  == last.signals[7].score
        IN  /\ last.signals[7].signal = "Extreme Odds"
            /\ price <= 10 * PriceDen => odds = 30
            /\ (10 * PriceDen < price /\ price <= 20 * PriceDen) => odds = 20
            /\ (20 * PriceDen < price /\ price <= 30 * PriceDen) => odds = 10
            /\ price > 30 * PriceDen => odds = 0

\* a trade at exactly 10 cents was analysed and its Extreme Odds score is 30
C17_Witness ==
    /\ last.ret \in { "None", "SuspiciousTrade" }
    /\ trade_data.price = 10 * PriceDen
    /\ last.signals[7].score = 30

----------------------------------------------------------------------------
(* Frame of one call *)

\* C19: a call for market m leaves the history of every other market alone,
\* appends exactly one sample (the market's 24h volume) to m's history and
\* drops at most the oldest one, and leaves the caller's wallet_profile,
\* trade_data and market_data as they were passed.
C19_OnlyMarketHistoryChanges ==
    [][LET m == last'.market
           x == IF market_data'.volume24hr = None THEN 0
                ELSE market_data'.volume24hr
           h == volume_history[m]
       IN  /\ \A o \in Markets \ { m } : volume_history'[o] = volume_history[o]
           /\ \/ volume_history'[m] = Append(h, x)
              \/ volume_history'[m] = Tail(Append(h, x))
           /\ wallet_profile' = wallet_profile
           /\ DOMAIN wallet_profile
                = { "total_trades", "unique_markets", "total_volume_usd",
                    "win_rate", "first_seen" }
           /\ trade_data' = [ trade_data EXCEPT !.market = m ]
           /\ market_data'.endDate = market_data.endDate
           /\ DOMAIN market_data' = DOMAIN market_data]_vars

\* the last call was for the other market while the long market's history is
\* full and has already dropped a sample
C19_Witness ==
    /\ last.market # LongMarket
    /\ last.ret \in { "None", "SuspiciousTrade" }
    /\ \E o \in Markets \ { LongMarket } : Len(volume_history[o]) = 1
    /\ Len(volume_history[LongMarket]) = volume_history_cap
    /\ Len(arrivals[LongMarket]) > volume_history_cap

----------------------------------------------------------------------------
(* The window of a cluster *)

\* the trades of the batch that a built cluster holds
MembersOf(c) == SelectSeq(cl_trades, LAMBDA t : t.id \in c.members)

\* C20: every cluster built holds exactly the trades of its market from its
\* first trade up to and including time_window_minutes later (so every
\* member is within the window of the first trade, not merely of the trade
\* before it, and a trade exactly at the boundary is a member), and it has
\* at least 3 trades and at least 3 distinct wallets.
C20_WindowAnchoredAtClusterStart ==
    cl_pc = "done" =>
        \A i \in 1..Len(cl_result.built) :
            LET c      == cl_result.built[i]
                start  == c.first_coordinated_trade
                within == { k \in 1..Len(cl_trades) :
                              /\ cl_trades[k].market = c.cluster_id[1]
                              /\ start <= cl_trades[k].timestamp
                              /\ cl_trades[k].timestamp <= start + cl_window }
            IN  /\ c.members = { cl_trades[k].id : k \in within }
                /\ \E k \in within : cl_trades[k].timestamp = start
                /\ Cardinality(c.members) >= 3
                /\ Cardinality(c.wallets) >= 3
                /\ c.wallets = { cl_trades[k].maker : k \in within }

\* a cluster was built whose last trade is exactly time_window_minutes after
\* its first, and a later trade of the batch closed it
C20_Witness ==
    /\ cl_pc = "done"
    /\ \E i \in 1..Len(cl_result.built) :
          LET c  == cl_result.built[i]
              mt == MembersOf(c)
          IN  /\ \E k \in 1..Len(mt) :
                    mt[k].timestamp = c.first_coordinated_trade + cl_window
              /\ \E k \in 1..Len(cl_trades) :
                    cl_trades[k].timestamp > c.first_coordinated_trade + cl_window

----------------------------------------------------------------------------
(* The correlation score of a cluster *)

\* the number of trades on the side that most of the given trades are on
MajoritySide(trades) ==
    LET buys  == Cardinality({ k \in 1..Len(trades) : trades[k].side = "BUY" })
        sells == Cardinality({ k \in 1..Len(trades) : trades[k].side = "SELL" })
    IN  IF buys >= sells THEN buys ELSE sells

\* 60 * (1 - min(spread_minutes / 60, 1))
Compactness60(trades) ==
    IF Span(trades) >= 60 THEN 0 ELSE 60 - Span(trades)

\* score = (majority / n + 1 - min(spread / 60, 1)) / 2
ScoreIsAverage(c) ==
    LET mt == MembersOf(c)
        n  == Len(mt)
    IN  c.correlation_score.num * 120 * n
          = c.correlation_score.den * (60 * MajoritySide(mt) + n * Compactness60(mt))

\* C21: the correlation_score of every cluster is the average of the
\* majority-side ratio and the time compactness; a returned cluster has a
\* score in (0.8, 1] and more than 2 wallets, and a cluster whose score is at
\* most 0.8 is not returned.
C21_ReturnedClustersAreCorrelated ==
    cl_pc = "done" =>
        /\ \A i \in 1..Len(cl_result.built) :
              LET c == cl_result.built[i]
              IN  /\ ScoreIsAverage(c)
                  /\ 5 * c.correlation_score.num <= 4 * c.correlation_score.den
                        => \A j \in 1..Len(cl_result.returned) :
                              cl_result.returned[j] # c
        /\ \A j \in 1..Len(cl_result.returned) :
              LET c == cl_result.returned[j]
              IN  /\ \E i \in 1..Len(cl_result.built) : cl_result.built[i] = c
                  /\ 5 * c.correlation_score.num > 4 * c.correlation_score.den
                  /\ c.correlation_score.num <= c.correlation_score.den
                  /\ Cardinality(c.wallets) > 2

\* a cluster with a SELL among its BUYs and a spread above zero was returned
C21_Witness ==
    /\ cl_pc = "done"
    /\ \E j \in 1..Len(cl_result.returned) :
          LET mt == MembersOf(cl_result.returned[j])
          IN  /\ MajoritySide(mt) < Len(mt)
              /\ Span(mt) > 0

\* C28: every returned cluster spans strictly less than 24 minutes and has
\* strictly more than 60 percent of its trades on one side, whatever the
\* window.
C28_ReturnedClustersTightAndOneSided ==
    cl_pc = "done" =>
        \A j \in 1..Len(cl_result.returned) :
            LET mt == MembersOf(cl_result.returned[j])
            IN  /\ Span(mt) < 24
                /\ 5 * MajoritySide(mt) > 3 * Len(mt)

\* with a 90-minute window a cluster spanning 23 minutes was returned
C28_Witness ==
    /\ cl_pc = "done"
    /\ cl_window = 90
    /\ \E j \in 1..Len(cl_result.returned) :
          Span(MembersOf(cl_result.returned[j])) = 23

----------------------------------------------------------------------------
(* The clusters of one call *)

\* the latest timestamp among the trades a cluster holds
LastOf(c) ==
    LET ts == Timestamps(MembersOf(c))
    IN  CHOOSE t \in ts : \A u \in ts : u <= t

\* C30: in one call no trade is in two clusters, the clusters of one market
\* follow each other in time without overlap (each ends before the next
\* starts), and the returned clusters have pairwise distinct cluster ids.
C30_ClustersDisjointAndDistinct ==
    cl_pc = "done" =>
        /\ \A i, j \in 1..Len(cl_result.built) :
              i < j =>
                 LET c == cl_result.built[i]
                     d == cl_result.built[j]
                 IN  /\ c.members \cap d.members = { }
                     /\ c.cluster_id[1] = d.cluster_id[1]
                           => LastOf(c) < d.first_coordinated_trade
        /\ \A i, j \in 1..Len(cl_result.returned) :
              i < j => cl_result.returned[i].cluster_id
                          # cl_result.returned[j].cluster_id

\* three clusters are returned: two of one market, and one of the other
\* market that starts at the same minute as the first
C30_Witness ==
    /\ cl_pc = "done"
    /\ \E i, j, k \in 1..Len(cl_result.returned) :
          LET c == cl_result.returned[i]
              d == cl_result.returned[j]
              e == cl_result.returned[k]
          IN  /\ c.cluster_id[1] = d.cluster_id[1]
              /\ c.first_coordinated_trade < d.first_coordinated_trade
              /\ e.cluster_id[1] # c.cluster_id[1]
              /\ e.first_coordinated_trade = c.first_coordinated_trade

----------------------------------------------------------------------------
(* The spark of a cascade *)

\* C23: the spark of a reported cascade is the chronologically first of the
\* five earliest trades whose notional reaches the alert floor; when none of
\* the five earliest reaches it nothing is reported, even if a later trade
\* does.
C23_SparkAmongFiveEarliest ==
    ca_pc = "done" =>
        LET chron == SortByTimestamp(ca_trades)
            floor == min_notional_alert * Dollar
            early == { i \in 1..Len(chron) : i <= 5 }
        IN  /\ (\A i \in early : chron[i].size * chron[i].price < floor)
                  => ca_result.ret = "None"
            /\ ca_result.ret = "cascade" =>
                  \E at \in early :
                      /\ ca_result.spark_trade = << chron[at] >>
                      /\ ca_result.spark_wallet = chron[at].maker
                      /\ chron[at].size * chron[at].price >= floor
                      /\ \A i \in early :
                            i < at => chron[i].size * chron[i].price < floor

\* six BUY trades of which only the sixth reaches the floor: nothing is
\* reported
C23_Witness ==
    /\ ca_pc = "done"
    /\ Len(ca_trades) = 6
    /\ ca_result.ret = "None"
    /\ \A i \in 1..6 : ca_trades[i].side = "BUY"
    /\ \E i \in 1..6 :
          /\ ca_trades[i].timestamp = 6
          /\ ca_trades[i].size * ca_trades[i].price >= min_notional_alert * Dollar
    /\ \A i \in 1..6 :
          ca_trades[i].timestamp < 6
             => ca_trades[i].size * ca_trades[i].price < min_notional_alert * Dollar

----------------------------------------------------------------------------
(* Claims about the entries of a backtest *)

\* C25: for a known case, passed is true exactly when top_score reaches the
\* expected minimum; the insider's score never exceeds top_score.
C25_PassedIffTopScore ==
    KnownCaseDone =>
        /\ bt_result.passed \in { "True", "False" }
        /\ bt_result.passed = "True"
              <=> bt_result.top_score >= bt_result.expected_min_score
        /\ bt_result.insider_found
              => bt_result.insider_score <= bt_result.top_score
        /\ \A i \in 1..Len(bt_result.suspicious_trades) :
              bt_result.suspicious_trades[i].score <= bt_result.top_score

\* the insider was found with a score at the expected minimum or above, and
\* another entry scored less
C25_Witness ==
    /\ KnownCaseDone
    /\ bt_result.passed = "True"
    /\ bt_result.insider_found
    /\ bt_result.insider_score >= bt_result.expected_min_score
    /\ \E i \in 1..Len(bt_result.suspicious_trades) :
          bt_result.suspicious_trades[i].score < bt_result.expected_min_score

\* the extreme-odds tier of a price in cents
OddsTier(price) ==
    IF price <= 10 * PriceDen THEN 30
    ELSE IF price <= 20 * PriceDen THEN 20
    ELSE IF price <= 30 * PriceDen THEN 10
    ELSE 0

\* C26: the Extreme Odds score in every entry's breakdown is the tier of the
\* price recorded in the entry; a recorded price above 30 goes with score 0.
C26_EntryOddsMatchRecordedPrice ==
    bt_pc = "done" =>
        \A i \in 1..Len(bt_result.suspicious_trades) :
            LET e == bt_result.suspicious_trades[i]
            IN  /\ e.signals[7].signal = "Extreme Odds"
                /\ e.signals[7].score = OddsTier(e.price)

----------------------------------------------------------------------------
(* Wallets without history *)

\* C29: a call whose wallet profile has total_trades = 0 and
\* unique_markets = 0 returns a SuspiciousTrade whose signals sum to at least
\* 65 and whose severity is high or critical, whatever the trade and the
\* market record.
C29_EmptyProfileAlwaysHighSeverity ==
    (/\ last.ret # "init"
     /\ wallet_profile.total_trades = 0
     /\ wallet_profile.unique_markets = 0)
        => /\ last.ret = "SuspiciousTrade"
           /\ last.severity_score >= 65
           /\ last.severity \in { "high", "critical" }

----------------------------------------------------------------------------
(* Concurrent use of the detector *)

\* the analyze calls the tasks have completed
CallsCompleted ==
    SumSeq([ i \in 1..2 |->
               MaxTaskCalls - task_left[IF i = 1 THEN "backtest" ELSE "scan"] ])

\* C22: whatever the interleaving of the tasks, a call in progress works on
\* the history as it is (no other call's update came in between), every
\* completed call has added exactly one sample, and the history holds the
\* latest samples, at most 30 of them.
C22_HistoryUpdatesAreSerialized ==
    LET h == volume_history[LongMarket]
        a == arrivals[LongMarket]
    IN  /\ \A t \in Tasks : task_pc[t] = "in_call" => task_read[t] = h
        /\ Len(a) = CallsCompleted
        /\ Len(h) = Min(Len(a), volume_history_cap)
        /\ h = SubSeq(a, Len(a) - Len(h) + 1, Len(a))

\* both tasks have made calls, one is inside a call, and the history has
\* already evicted samples
C22_Witness ==
    /\ \A t \in Tasks : task_left[t] < MaxTaskCalls - 1
    /\ \E t \in Tasks : task_pc[t] = "in_call"
    /\ Len(volume_history[LongMarket]) = volume_history_cap
    /\ Len(arrivals[LongMarket]) > volume_history_cap

----------------------------------------------------------------------------
(* The alert store *)

\* C24: the store never holds two alerts with the same composite key, and it
\* holds no more alerts than its cap plus one for each scan that has inserted
\* an alert and is still waiting for the notifier, so no more than the cap
\* once the trades are processed; also after the key set has been reset.
C24_AlertsUniqueAndCapped ==
    /\ \A i, j \in 1..Len(alerts_store) :
          i < j => AlertKey(alerts_store[i]) # AlertKey(alerts_store[j])
    /\ Len(alerts_store)
          <= alerts_cap + Cardinality({ t \in Scans : scan_pc[t] = "notify" })

\* after a reset of the key set a trade alerted before was alerted again; its
\* alert is in the store, which is full, and no scan is waiting
C24_Witness ==
    /\ \A t \in Scans : scan_pc[t] = "loop"
    /\ Len(alerts_store) = alerts_cap
    /\ \E i \in 1..Len(alerts_store) : AlertKey(alerts_store[i]) \in alerted.again

====
